----------------------------- MODULE SipRegistry -----------------------------
(***************************************************************************)
(* The registry table of SIPLib (tbl_sip_tables.c, tbl_sip_hash_tables.c,  *)
(* sip_worker_parse.c): the phones that REGISTER at the exchange, found by *)
(* user name, and the two threads that work on it:                         *)
(*   "cap"  the capture thread, which finds or inserts the entry of a SIP  *)
(*          message and links calls to entries;                            *)
(*   "rgl"  SipReglamentThread, which every ten seconds looks at the       *)
(*          entries nobody uses and removes those whose registration has   *)
(*          ended.                                                         *)
(* The capture thread works on an entry under the mutex of the hash table; *)
(* the reglament thread tests and writes entries without it and takes it   *)
(* only to delete.  The callbacks end in CTerminalManager, of which only   *)
(* what it knows of each phone is kept (`terminal`).                       *)
(***************************************************************************)
EXTENDS Integers, FiniteSets, Functions

CONSTANTS
  Slots,    \* entries of the user_registry[] array
  Users,    \* user names of phones
  NoUser,   \* puser_name = NULL
  Junk,     \* what a freed name buffer holds
  NoSlot,   \* no slot in hand
  NoMsg,    \* no message in hand
  Kinds,    \* the kinds of messages that come
  Agents,   \* does a message carry a User-Agent? a subset of BOOLEAN
  MaxMsgs   \* bound on the look-ups that SIP messages cause

\* A REGISTER, its 2XX with or without time to live, a 2XX to a NOTIFY, and
\* one of the two parties of an INVITE.
AllKinds == {"REGISTER", "REGISTERED", "UNREGISTERED", "NOTIFIED", "INVITE"}

Messages == [kind : Kinds, user : Users, agent : Agents]

ASSUME RegistryAssumption ==
  /\ NoUser \notin Users /\ Junk \notin Users /\ Junk # NoUser
  /\ NoSlot \notin Slots
  /\ NoMsg \notin Messages
  /\ Kinds \subseteq AllKinds
  /\ Agents \subseteq BOOLEAN
  /\ MaxMsgs \in Nat

VARIABLES
  entry,     \* user_registry[]
  pool,      \* free_user_registry: the slots on the free list
  table,     \* pht_registry: user name -> slot
  links,     \* puser_registry0, 1 of all calls, per slot
  pc,        \* where each thread is
  at,        \* the slot each thread works on
  msg,       \* the message the capture thread works on
  key,       \* the name the reglament thread has read, to delete by
  terminal,  \* what CTerminalManager knows of a phone
  left       \* look-ups still to come

tableVars == <<entry, pool, table, links>>
vars == <<tableVars, pc, at, msg, key, terminal, left>>

\* tbl_registry_status_t; NOTIFY (ST_RECEIVE_NOTIFY) is 0, also the status of
\* a zeroed slot, EXPIRES is ST_RECEIVE_REGISTER_EXPIRES.
Status == {"NOTIFY", "EXPIRES", "REGISTER", "END_USER", "END_EXPIRY", "ERROR"}

EntryRec ==
  [ user   : Users \cup {NoUser},  \* puser_name
    status : Status,
    typed  : BOOLEAN,              \* phone_type # PHONE_TYPE_UNDEFINED
    old    : BOOLEAN,              \* expires + last_message + MAX_TIME_REGISTRY < now
    refs   : Nat ]                 \* col_session

\* A slot zeroed by user_registry_free: its registration ended in 1970.
FreeEntry ==
  [user |-> NoUser, status |-> "NOTIFY", typed |-> FALSE, old |-> TRUE, refs |-> 0]

Threads == {"cap", "rgl"}

Init ==
  /\ entry = [s \in Slots |-> FreeEntry]
  /\ pool = Slots
  /\ table = [u \in {} |-> NoSlot]
  /\ links = [s \in Slots |-> 0]
  /\ pc = [t \in Threads |-> "idle"]
  /\ at = [t \in Threads |-> NoSlot]
  /\ msg = NoMsg
  /\ key = NoUser
  /\ terminal = [u \in Users |-> "none"]
  /\ left = MaxMsgs

\* The capture thread holds the mutex of pht_registry.
Locked == pc["cap"] \in {"touch", "status", "count"}

\* Thread t, working on slot s, moves from one place in its code to another.
Goto(t, s, from, to) ==
  /\ pc[t] = from
  /\ at[t] = s
  /\ pc' = [pc EXCEPT ![t] = to]
  /\ UNCHANGED at

\* Thread t is done with slot s.
Leave(t, s, from) ==
  /\ pc[t] = from
  /\ at[t] = s
  /\ pc' = [pc EXCEPT ![t] = "idle"]
  /\ at' = [at EXCEPT ![t] = NoSlot]

Idle(t) == pc[t] = "idle"

Start(t, s, to) ==
  /\ Idle(t)
  /\ pc' = [pc EXCEPT ![t] = to]
  /\ at' = [at EXCEPT ![t] = s]

-----------------------------------------------------------------------------
(* The listener. *)

\* cbOnRegister, which serves new and updated entries: a phone is reported
\* once its type is known, unless its REGISTER is being renewed or it is gone.
\* CreateTerminal of a phone it knows returns with m_cs held ("stuck").
CbOnRegister(e) ==
  terminal' =
    IF e.user # NoUser /\ e.status \in {"REGISTER", "NOTIFY"} /\ e.typed
      THEN [terminal EXCEPT ![e.user] = IF @ = "none" THEN "made" ELSE "stuck"]
      ELSE terminal

\* cbOnEndRegister and DeleteTerminal, which does nothing for an unknown phone.
CbOnEndRegister(e) ==
  terminal' =
    IF e.user # NoUser /\ e.status \in {"END_USER", "END_EXPIRY"}
      THEN [terminal EXCEPT ![e.user] = IF @ = "made" THEN "none" ELSE @]
      ELSE terminal

-----------------------------------------------------------------------------
(* The capture thread. *)

\* hs_registry: what a message does to the status of the entry it finds.
StatusAfter(status, kind) ==
  CASE kind = "REGISTER"     -> "EXPIRES"
    [] kind = "REGISTERED"   -> "REGISTER"
    [] kind = "UNREGISTERED" -> "END_USER"
    [] OTHER                 -> status

\* The entry a message found: its time starts anew, unless the message is
\* not about registration, and it is in use.
Touched(e, m) ==
  [ e EXCEPT !.status = StatusAfter(@, m.kind),
             !.old = @ /\ m.kind \in {"NOTIFIED", "INVITE"},
             !.refs = @ + 1 ]

\* The search of a name in the table, which locks it, and the type of the
\* phone, reported under the lock when it is learnt.
Search(s, m) ==
  /\ left > 0 /\ left' = left - 1
  /\ m.user \in DOMAIN table /\ table[m.user] = s
  /\ Start("cap", s, "touch")
  /\ msg' = m
  /\ entry' = [entry EXCEPT ![s].typed = @ \/ m.agent]
  /\ IF ~ entry[s].typed /\ m.agent
       THEN CbOnRegister(entry'[s])
       ELSE UNCHANGED terminal
  /\ UNCHANGED <<pool, table, links, key>>

\* The rest of the search.  An INVITE keeps the reference it got for its call.
Touch(s) ==
  /\ Goto("cap", s, "touch", "release")
  /\ msg.kind # "INVITE"
  /\ entry' = [entry EXCEPT ![s] = Touched(@, msg)]
  /\ UNCHANGED <<pool, table, links, msg, key, terminal, left>>

TouchAndLink(s) ==
  /\ Leave("cap", s, "touch")
  /\ msg.kind = "INVITE"
  /\ entry' = [entry EXCEPT ![s] = Touched(@, msg)]
  /\ links' = [links EXCEPT ![s] = @ + 1]
  /\ msg' = NoMsg
  /\ UNCHANGED <<pool, table, key, terminal, left>>

\* What hi_registry makes of the slot before it sets status and use count.
NewEntry(m) ==
  [user |-> m.user, status |-> "ERROR", typed |-> m.agent, old |-> FALSE, refs |-> 0]

\* hi_registry: a phone not in the table gets a slot of the free list; with
\* none left nothing happens.  The name is there before the status and the
\* use count are.  (Only this thread inserts, so what the search did not find
\* is still not there.)
InsertName(s, m) ==
  /\ left > 0 /\ left' = left - 1
  /\ m.kind # "INVITE"
  /\ m.user \notin DOMAIN table
  /\ s \in pool
  /\ Start("cap", s, "status")
  /\ msg' = m
  /\ pool' = pool \ {s}
  /\ entry' = [entry EXCEPT ![s] = NewEntry(m)]
  /\ UNCHANGED <<table, links, key, terminal>>

\* A REGISTER is inserted as if it were a NOTIFY.
InsertStatus(s) ==
  /\ Goto("cap", s, "status", "count")
  /\ entry' = [entry EXCEPT ![s].status =
       StatusAfter("NOTIFY", IF msg.kind = "REGISTER" THEN "NOTIFIED" ELSE msg.kind)]
  /\ UNCHANGED <<pool, table, links, msg, key, terminal, left>>

InsertCount(s) ==
  /\ Goto("cap", s, "count", "report")
  /\ entry' = [entry EXCEPT ![s].refs = @ + 1]
  /\ table' = [u \in DOMAIN table \cup {msg.user} |-> IF u = msg.user THEN s ELSE table[u]]
  /\ UNCHANGED <<pool, links, msg, key, terminal, left>>

\* The 2XX has no Contact or From that can be parsed: the slot goes back, and
\* with it the buffer of the name that the reglament thread may have read.
InsertFail(s) ==
  /\ Leave("cap", s, "count")
  /\ msg.kind \in {"REGISTERED", "UNREGISTERED"}
  /\ entry' = [entry EXCEPT ![s] = FreeEntry]
  /\ pool' = pool \cup {s}
  /\ key' = IF at["rgl"] = s /\ key # NoUser THEN Junk ELSE key
  /\ msg' = NoMsg
  /\ UNCHANGED <<table, links, terminal, left>>

\* The new entry is reported when the lock is gone.
Report(s) ==
  /\ Goto("cap", s, "report", "release")
  /\ CbOnRegister(entry[s])
  /\ UNCHANGED <<tableVars, msg, key, left>>

\* sip_registry_free, when the message has been handled.
Release(s) ==
  /\ Leave("cap", s, "release")
  /\ entry' = [entry EXCEPT ![s].refs = @ - 1]
  /\ msg' = NoMsg
  /\ UNCHANGED <<pool, table, links, key, terminal, left>>

-----------------------------------------------------------------------------
(* SipReglamentThread: user_registry_reglament.  No visit depends on another *)
(* one, so the slots are visited in any order.                               *)

\* The name and the use count are read with no lock held ...
Visit(s) ==
  /\ entry[s].user # NoUser /\ entry[s].refs = 0
  /\ Start("rgl", s, "look")
  /\ UNCHANGED <<tableVars, msg, key, terminal, left>>

\* Bug: the case of a phone that has unregistered is forgotten.
LookExpiredOnly(s) ==
  /\ entry[s].status = "REGISTER" /\ Goto("rgl", s, "look", "test")
  /\ UNCHANGED <<tableVars, msg, key, terminal, left>>

\* ... and so is the status, after them.
Look(s) ==
  /\ \/ entry[s].status \in {"END_USER", "ERROR"} /\ Goto("rgl", s, "look", "tell1")
     \/ entry[s].status = "REGISTER" /\ Goto("rgl", s, "look", "test")
  /\ UNCHANGED <<tableVars, msg, key, terminal, left>>

\* Entries with any other status are left alone.
Pass(s) ==
  /\ entry[s].status \notin {"END_USER", "ERROR", "REGISTER"}
  /\ Leave("rgl", s, "look")
  /\ UNCHANGED <<tableVars, msg, key, terminal, left>>

\* sip_registry_delete comes twice: for an ended registration (1), after which
\* the switch falls through to the test of the time, and for an expired one (2).
Round == {1, 2}
Tell(n)   == IF n = 1 THEN "tell1" ELSE "tell2"
Read(n)   == IF n = 1 THEN "read1" ELSE "read2"
Remove(n) == IF n = 1 THEN "remove1" ELSE "remove2"
After(n)  == IF n = 1 THEN "test" ELSE "done"

\* The end is announced first, ...
TellEnd(s, n) ==
  /\ Goto("rgl", s, Tell(n), Read(n))
  /\ CbOnEndRegister(entry[s])
  /\ UNCHANGED <<tableVars, msg, key, left>>

\* ... then the name is read to search by, ...
ReadKey(s, n) ==
  /\ Goto("rgl", s, Read(n), IF entry[s].user = NoUser THEN After(n) ELSE Remove(n))
  /\ key' = entry[s].user
  /\ UNCHANGED <<tableVars, msg, terminal, left>>

\* The names the key may be read as: a freed buffer may hold anything.
KeyRead == IF key = Junk THEN Users \cup {NoUser} ELSE {key}

\* Bug: the entry is deleted whoever uses it.
DeleteInUse(s, n) ==
  /\ ~ Locked
  /\ Goto("rgl", s, Remove(n), After(n))
  /\ key' = NoUser
  /\ \E u \in KeyRead :
       IF u \in DOMAIN table
         THEN /\ entry' = [entry EXCEPT ![table[u]] = FreeEntry]
              /\ pool' = pool \cup {table[u]}
              /\ table' = Restrict(table, DOMAIN table \ {u})
         ELSE UNCHANGED <<entry, pool, table>>
  /\ UNCHANGED <<links, msg, terminal, left>>

\* Bug: the entry is freed and its node stays in the tree.
DeleteKeepNode(s, n) ==
  /\ ~ Locked
  /\ Goto("rgl", s, Remove(n), After(n))
  /\ key' = NoUser
  /\ \E u \in KeyRead :
       IF u \in DOMAIN table /\ entry[table[u]].refs = 0
         THEN /\ entry' = [entry EXCEPT ![table[u]] = FreeEntry]
              /\ pool' = pool \cup {table[u]}
         ELSE UNCHANGED <<entry, pool>>
  /\ UNCHANGED <<table, links, msg, terminal, left>>

\* ... and hd_registry, under the mutex, frees the entry found by that name
\* unless it is in use.
Delete(s, n) ==
  /\ ~ Locked
  /\ Goto("rgl", s, Remove(n), After(n))
  /\ key' = NoUser
  /\ \E u \in KeyRead :
       IF u \in DOMAIN table /\ entry[table[u]].refs = 0
         THEN /\ entry' = [entry EXCEPT ![table[u]] = FreeEntry]
              /\ pool' = pool \cup {table[u]}
              /\ table' = Restrict(table, DOMAIN table \ {u})
         ELSE UNCHANGED <<entry, pool, table>>
  /\ UNCHANGED <<links, msg, terminal, left>>

\* The time is tested on whatever the slot is now, ...
Test(s) ==
  /\ Goto("rgl", s, "test", IF entry[s].old THEN "expire" ELSE "done")
  /\ UNCHANGED <<tableVars, msg, key, terminal, left>>

\* ... and the status written, with no lock.
Expire(s) ==
  /\ Goto("rgl", s, "expire", "tell2")
  /\ entry' = [entry EXCEPT ![s].status = "END_EXPIRY"]
  /\ UNCHANGED <<pool, table, links, msg, key, terminal, left>>

Done(s) ==
  /\ Leave("rgl", s, "done")
  /\ UNCHANGED <<tableVars, msg, key, terminal, left>>

\* Bug: two references are given back for one link.
UnlinkTwice(s) ==
  /\ Idle("rgl") /\ ~ Locked
  /\ links[s] > 0
  /\ links' = [links EXCEPT ![s] = @ - 1]
  /\ entry' = [entry EXCEPT ![s].refs = @ - 2]
  /\ UNCHANGED <<pool, table, pc, at, msg, key, terminal, left>>

\* hd_active_session, run by the same thread for another table: a call that
\* is freed gives the entry it is linked to back.
Unlink(s) ==
  /\ Idle("rgl") /\ ~ Locked
  /\ links[s] > 0
  /\ links' = [links EXCEPT ![s] = @ - 1]
  /\ entry' = [entry EXCEPT ![s].refs = @ - 1]
  /\ UNCHANGED <<pool, table, pc, at, msg, key, terminal, left>>

\* The time of a registration runs out.
GrowOld(s) ==
  /\ entry[s].user # NoUser /\ ~ entry[s].old
  /\ entry' = [entry EXCEPT ![s].old = TRUE]
  /\ UNCHANGED <<pool, table, links, pc, at, msg, key, terminal, left>>

-----------------------------------------------------------------------------
Receive(s) == \E m \in Messages : Search(s, m) \/ InsertName(s, m)

Capture(s) ==
  \/ Touch(s) \/ TouchAndLink(s)
  \/ InsertStatus(s) \/ InsertCount(s) \/ InsertFail(s)
  \/ Report(s) \/ Release(s)

Reglament(s) ==
  \/ Look(s) \/ Pass(s) \/ Test(s) \/ Expire(s) \/ Done(s)
  \/ \E n \in Round : TellEnd(s, n) \/ ReadKey(s, n) \/ Delete(s, n)

Next ==
  \E s \in Slots :
    \/ Receive(s) \/ Capture(s)
    \/ Visit(s) \/ Reglament(s) \/ Unlink(s)
    \/ GrowOld(s)

Spec == Init /\ [][Next]_vars

\* Both threads keep running, the reglament thread comes round to every slot
\* again and again, and the clock goes on.  No call has to end and no phone to
\* send a message.
Fairness ==
  \A s \in Slots :
    /\ WF_vars(Capture(s))
    /\ WF_vars(Reglament(s))
    /\ SF_vars(Visit(s))
    /\ WF_vars(GrowOld(s))

FairSpec == Spec /\ Fairness

-----------------------------------------------------------------------------
(* Safety. *)

CapPlaces == {"idle", "touch", "status", "count", "report", "release"}
RglPlaces == {"idle", "look", "tell1", "read1", "remove1", "test", "expire",
              "tell2", "read2", "remove2", "done"}

TypeOK ==
  /\ entry \in [Slots -> EntryRec]
  /\ pool \subseteq Slots
  /\ DOMAIN table \subseteq Users /\ table \in [DOMAIN table -> Slots]
  /\ links \in [Slots -> Nat]
  /\ pc \in [Threads -> CapPlaces \cup RglPlaces]
  /\ pc["cap"] \in CapPlaces /\ pc["rgl"] \in RglPlaces
  /\ at \in [Threads -> Slots \cup {NoSlot}]
  /\ msg \in Messages \cup {NoMsg}
  /\ key \in Users \cup {NoUser, Junk}
  /\ terminal \in [Users -> {"none", "made", "stuck"}]
  /\ left \in 0 .. MaxMsgs

\* The capture thread has been counted as a user of the entry it works on.
Holds(s) == at["cap"] = s /\ pc["cap"] \in {"report", "release"}

\* col_session counts the calls linked to the entry and the message being
\* handled, no more and no less, whatever the reglament thread does to the
\* entry meanwhile: it can neither be freed under a call nor stay for ever.
RefsExact ==
  \A s \in Slots : entry[s].refs = links[s] + (IF Holds(s) THEN 1 ELSE 0)

\* The entry the capture thread works on stays that of its phone, although
\* the reglament thread decides to delete with no lock held.
InHandStays ==
  pc["cap"] # "idle" => at["cap"] \in Slots /\ entry[at["cap"]].user = msg.user

\* Both: an entry is protected by its count as long as it is used, and no longer.
HeldEntriesKept == RefsExact /\ InHandStays

\* The tree, the array and the free list agree: a name leads to the entry of
\* that phone, a free slot is in neither and used by no call.
TableSound ==
  /\ \A u \in DOMAIN table : entry[table[u]].user = u
  /\ \A s \in Slots :
       \/ s \in pool /\ entry[s].user = NoUser /\ links[s] = 0
       \/ s \notin pool /\ entry[s].user # NoUser
  /\ \A s \in Slots \ pool :
       \/ entry[s].user \in DOMAIN table /\ table[entry[s].user] = s
       \/ pc["cap"] \in {"status", "count"} /\ at["cap"] = s

\* What a call may rely on: the phone it is linked to does not vanish.
Links(u) == IF u \in DOMAIN table THEN links[table[u]] ELSE 0

Book == INSTANCE PhoneBook WITH
          present <- DOMAIN table, uses <- [u \in Users |-> Links(u)]

\* The table keeps the promise of PhoneBook, on which SipSessions relies.
ImplementsBook == Book!Spec

(* Liveness. *)

\* A phone that has unregistered leaves the table, registers again or is
\* still linked to a call, even if its deletion is refused at first.
UnregisteredLeaves ==
  \A s \in Slots :
    entry[s].status = "END_USER" ~> entry[s].status # "END_USER" \/ links[s] > 0

(* What the interfaces say, and the code does not do. *)

\* Interfaces.h:122: OnNewRegister is called "when new IP terminal registered
\* on PBX", so not for one that CTerminalManager knows.
NewReportedOnce == \A u \in Users : terminal[u] # "stuck"

\* ... and it is called: a registered phone of known type that neither thread
\* works on is known to the listener.
RegisteredIsReported ==
  \A s \in Slots :
    entry[s].status = "REGISTER" /\ entry[s].typed /\ at["cap"] # s /\ at["rgl"] # s
      => terminal[entry[s].user] # "none"

\* Interfaces.h:131: OnEndRegister is called "when IP terminal unregistered or
\* registration expired", also for a phone that fell silent while renewing.
ExpiredIsReported ==
  \A u \in Users, s \in Slots :
    entry[s].user = u /\ entry[s].status = "EXPIRES" /\ entry[s].old
      ~> \/ terminal[u] # "made"
         \/ links[s] > 0
         \/ ~ (entry[s].user = u /\ entry[s].status = "EXPIRES" /\ entry[s].old)
=============================================================================
