-------------------------- MODULE SipSessionsProofs --------------------------
(***************************************************************************)
(* Proofs about SipSessions, for any table size, any sets of calls, users  *)
(* and endpoints and any number of messages: the table and its two threads,*)
(* what CSIPManager and its listeners are told, where the recorder listens,*)
(* and the links from the calls to the registry.                           *)
(***************************************************************************)
EXTENDS SipSessions, FiniteSetTheorems, TLAPS

ManagerProofs == INSTANCE SipManagerProofs WITH MaxId <- MaxMsgs

CapPlaces == {"idle", "link", "start", "media", "check", "mark", "end0", "end1",
              "endCall", "finish"}
RglPlaces == {"idle", "look", "expire", "check", "mark", "end0", "end1", "endCall",
              "finish"}
Ending == {"end0", "end1", "endCall"}

TableOK ==
  /\ slot \in [Slots -> SlotRec]
  /\ registry \subseteq Users
  /\ pc \in [Threads -> Places]
  /\ at \in [Threads -> Slots \cup {NoSlot}]
  /\ left \in 0 .. MaxMsgs

\* Each thread keeps to its own code, and has a slot in hand unless it is idle.
PlacesOK ==
  /\ pc["cap"] \in CapPlaces /\ pc["rgl"] \in RglPlaces
  /\ \A t \in Threads : at[t] = NoSlot <=> pc[t] = "idle"

\* A slot that is not in use is zeroed, one that is in use has a Call-ID.
UsedHasCall ==
  \A s \in Slots : /\ InUse(s) <=> slot[s].call # NoCall
                   /\ ~ InUse(s) => ~ slot[s].started /\ ~ slot[s].stopped

\* A call not yet announced is in the hands of the capture thread alone.
NewIsHeld ==
  \A s \in Slots :
    InUse(s) /\ ~ slot[s].started
      => /\ at["cap"] = s /\ pc["cap"] \in {"link", "start"}
         /\ at["rgl"] # s /\ ~ slot[s].stopped

\* The reglament thread frees a slot only after is_send_stop was set.
DeleteAfterMark ==
  \A s \in Slots :
    at["rgl"] = s /\ pc["rgl"] \in Ending \cup {"finish"} => slot[s].stopped

\* The places inside the handling of a message before a session can be opened.
BeforeMedia == {"link", "start", "media"}

\* One session at most is opened for each message.
IdsFromMsgs ==
  nextId + left + (IF pc["cap"] \in BeforeMedia THEN 1 ELSE 0) <= MaxMsgs + 1

TableInv ==
  /\ TableOK /\ PlacesOK /\ InHandInUse /\ RefsExact /\ UsedHasCall
  /\ OneSlotPerCall /\ NewIsHeld /\ DeleteAfterMark

USE SessionsAssumption DEF Threads

LEMMA InitTableInv == Init => TableInv
  BY DEF Init, TableInv, TableOK, PlacesOK, InHandInUse, RefsExact, UsedHasCall,
         OneSlotPerCall, NewIsHeld, DeleteAfterMark, FreeSlot, SlotRec, InUse, Places,
         CapPlaces, RglPlaces, Ending, Sides, NoTasks, NoLinks, Status

-----------------------------------------------------------------------------
(* Types. *)

LEMMA FreeSlotType == FreeSlot \in SlotRec
  BY DEF FreeSlot, SlotRec, Sides, Status, NoTasks, NoLinks

\* Every store into a field keeps the type of the slot.
LEMMA StoreType ==
  ASSUME NEW e \in SlotRec
  PROVE  /\ [e EXCEPT !.started = TRUE] \in SlotRec
         /\ [e EXCEPT !.stopped = TRUE] \in SlotRec
         /\ [e EXCEPT !.stale = TRUE] \in SlotRec
         /\ [e EXCEPT !.status = "STOP"] \in SlotRec
         /\ e.refs > 0 => [e EXCEPT !.refs = @ - 1] \in SlotRec
         /\ \A l \in [Sides -> Users \cup {NoUser}] : [e EXCEPT !.reg = l] \in SlotRec
         /\ \A d \in Sides : [e EXCEPT !.old[d] = e.rtp[d]] \in SlotRec
<1>1. \A d \in Sides : [e EXCEPT !.old[d] = e.rtp[d]] \in SlotRec
  BY DEF SlotRec
<1>2. \A l \in [Sides -> Users \cup {NoUser}] : [e EXCEPT !.reg = l] \in SlotRec
  BY DEF SlotRec
<1>3. e.refs > 0 => [e EXCEPT !.refs = @ - 1] \in SlotRec
  BY DEF SlotRec
<1>4. [e EXCEPT !.status = "STOP"] \in SlotRec
  BY DEF SlotRec, Status
<1>5. \A b \in BOOLEAN : /\ [e EXCEPT !.started = b] \in SlotRec
                         /\ [e EXCEPT !.stopped = b] \in SlotRec
                         /\ [e EXCEPT !.stale = b] \in SlotRec
  BY DEF SlotRec
<1> QED BY <1>1, <1>2, <1>3, <1>4, <1>5

LEMMA FoundType ==
  ASSUME NEW from \in Users \cup {NoUser}, NEW to \in Users \cup {NoUser}
  PROVE  Found(from, to) \in [Sides -> Users \cup {NoUser}]
  BY DEF Found

LEMMA MessageStoreType ==
  ASSUME NEW e \in SlotRec, NEW st \in Status, NEW rf \in Nat, NEW ok \in BOOLEAN,
         NEW d \in Sides, NEW rtp \in [Sides -> Medias \cup {NoMedia}],
         NEW old \in [Sides -> Medias \cup {NoMedia}]
  PROVE  [ e EXCEPT !.status = st, !.refs = rf, !.okLast = ok, !.recv = d, !.old = old,
                    !.rtp = rtp, !.stale = FALSE ] \in SlotRec
  BY DEF SlotRec

LEMMA TouchedType ==
  ASSUME NEW e \in SlotRec, NEW m \in Messages
  PROVE  Touched(e, m) \in SlotRec
<1> DEFINE old == IF m.sdp = NoMedia THEN e.old ELSE [e.old EXCEPT ![m.side] = e.rtp[m.side]]
<1>1. StatusAfter(e, m.kind) \in Status
  BY DEF StatusAfter, SlotRec, Status, Messages, Kinds
<1>2. Describe(e.rtp, m.side, m.sdp) \in [Sides -> Medias \cup {NoMedia}]
  BY DEF Describe, SlotRec, Messages
<1>3. old \in [Sides -> Medias \cup {NoMedia}]
  BY DEF SlotRec, Messages
<1>4. e.refs + 1 \in Nat /\ m.side \in Sides
  BY DEF SlotRec, Messages
<1>5. (m.kind = "2XX") \in BOOLEAN
  OBVIOUS
<1>6. Touched(e, m) =
        [ e EXCEPT !.status = StatusAfter(e, m.kind), !.refs = e.refs + 1,
                   !.okLast = (m.kind = "2XX"), !.recv = m.side, !.old = old,
                   !.rtp = Describe(e.rtp, m.side, m.sdp), !.stale = FALSE ]
  BY Zenon DEF Touched
<1> HIDE DEF old
<1>7. \A ok \in BOOLEAN :
        [ e EXCEPT !.status = StatusAfter(e, m.kind), !.refs = e.refs + 1,
                   !.okLast = ok, !.recv = m.side, !.old = old,
                   !.rtp = Describe(e.rtp, m.side, m.sdp), !.stale = FALSE ] \in SlotRec
  BY <1>1, <1>2, <1>3, <1>4, MessageStoreType, ZenonT(40)
<1> QED BY <1>5, <1>6, <1>7, Zenon

LEMMA NewSlotType ==
  ASSUME NEW m \in Messages PROVE NewSlot(m) \in SlotRec
<1>1. Describe(NoTasks, 0, m.sdp) \in [Sides -> Medias \cup {NoMedia}]
  BY DEF Describe, NoTasks, Sides, Messages
<1>2. \A e \in SlotRec, c \in CallIds, rtp \in [Sides -> Medias \cup {NoMedia}] :
        [e EXCEPT !.status = "START", !.call = c, !.refs = 1, !.rtp = rtp] \in SlotRec
  BY DEF SlotRec, Status
<1> QED BY <1>1, <1>2, FreeSlotType, Zenon DEF NewSlot, Messages

-----------------------------------------------------------------------------
(* Steps. *)

\* What TableInv tells apart of a slot is left as it is.
SameCore(r) ==
  /\ slot'[r].status = "NONE" <=> slot[r].status = "NONE"
  /\ slot'[r].call = slot[r].call
  /\ slot'[r].refs = slot[r].refs
  /\ slot'[r].started = slot[r].started
  /\ slot'[r].stopped = slot[r].stopped

\* The rest of TableInv, once the types are settled.
ControlInv ==
  /\ PlacesOK /\ InHandInUse /\ RefsExact /\ UsedHasCall
  /\ OneSlotPerCall /\ NewIsHeld /\ DeleteAfterMark

\* A step of neither thread.
LEMMA StandStill ==
  ASSUME TableInv, \A r \in Slots : SameCore(r), UNCHANGED <<pc, at>>
  PROVE  ControlInv'
  BY DEF SameCore, ControlInv, TableInv, TableOK, PlacesOK, InHandInUse, RefsExact,
     UsedHasCall, OneSlotPerCall,
       NewIsHeld, DeleteAfterMark, InUse, CapPlaces, RglPlaces, Ending

\* A step of thread t within its code, to place q, with the same slot in hand.
LEMMA MoveOn ==
  ASSUME TableInv, \A r \in Slots : SameCore(r), at' = at,
         NEW t \in Threads, NEW q, pc' = [pc EXCEPT ![t] = q],
         pc[t] # "idle", q # "idle",
         t = "cap" => q \in CapPlaces \ BeforeMedia \/ (q = "start" /\ pc["cap"] = "link")
                      \/ (q = "media" /\ slot[at["cap"]].started),
         t = "cap" /\ pc["cap"] \in {"link", "start"} => q \in {"start", "media"},
         t = "rgl" => /\ q \in RglPlaces
                      /\ q \in Ending \cup {"finish"} => slot[at["rgl"]].stopped
  PROVE  ControlInv'
<1> USE DEF SameCore, ControlInv, TableInv, TableOK, InUse, CapPlaces, RglPlaces, Ending,
            BeforeMedia
<1>1. PlacesOK'
  BY DEF PlacesOK
<1>2. InHandInUse'
  BY DEF InHandInUse
<1>3. RefsExact' /\ UsedHasCall' /\ OneSlotPerCall'
  BY DEF RefsExact, UsedHasCall, OneSlotPerCall
<1>4. NewIsHeld'
  BY DEF NewIsHeld, PlacesOK
<1>5. DeleteAfterMark'
  BY DEF DeleteAfterMark
<1> QED BY <1>1, <1>2, <1>3, <1>4, <1>5

LEMMA StepTableInv == TableInv /\ [Next]_vars => TableInv'
<1> SUFFICES ASSUME TableInv, [Next]_vars PROVE TableInv'
  OBVIOUS
<1>0. TableOK' /\ ControlInv' => TableInv'
  BY DEF TableInv, ControlInv
<1>1. ASSUME NEW s \in Slots, NEW m \in Messages, Search(s, m) PROVE TableInv'
  <2>1. /\ slot' = [slot EXCEPT ![s] = Touched(slot[s], m)]
        /\ pc["cap"] = "idle" /\ left > 0 /\ left' = left - 1
        /\ at' = [at EXCEPT !["cap"] = s]
        /\ pc' = [pc EXCEPT !["cap"] = IF m.kind = "INVITE" THEN "link" ELSE "media"]
        /\ InUse(s)
        /\ registry' = registry
    BY <1>1 DEF Search, TakeInHand
  <2>2. Touched(slot[s], m) \in SlotRec
    BY TouchedType DEF TableInv, TableOK
  <2>3. TableOK'
    BY <2>1, <2>2 DEF TableInv, TableOK, Places
  <2>4. /\ Touched(slot[s], m).status # "NONE"
        /\ Touched(slot[s], m).call = slot[s].call
        /\ Touched(slot[s], m).refs = slot[s].refs + 1
        /\ Touched(slot[s], m).started = slot[s].started
        /\ Touched(slot[s], m).stopped = slot[s].stopped
    BY <2>1 DEF Touched, StatusAfter, InUse, TableInv, TableOK, SlotRec
  <2>5. at["cap"] = NoSlot
    BY <2>1 DEF TableInv, PlacesOK
  <2> HIDE <1>1
  <2>6. ControlInv'
    BY <2>1, <2>4, <2>5 DEF ControlInv, TableInv, TableOK, PlacesOK, InHandInUse,
       RefsExact, UsedHasCall, OneSlotPerCall,
       NewIsHeld, DeleteAfterMark, InUse, CapPlaces, RglPlaces, Ending
  <2> QED BY <2>3, <2>6, <1>0
<1>2. ASSUME NEW s \in Slots, NEW m \in Messages, Insert(s, m) PROVE TableInv'
  <2>1. /\ slot' = [slot EXCEPT ![s] = NewSlot(m)]
        /\ pc["cap"] = "idle" /\ left > 0 /\ left' = left - 1
        /\ at' = [at EXCEPT !["cap"] = s]
        /\ pc' = [pc EXCEPT !["cap"] = "link"]
        /\ ~ InUse(s)
        /\ \A r \in Slots : slot[r].call # m.call
        /\ registry' = registry
    BY <1>2 DEF Insert, TakeInHand
  <2>2. TableOK'
    BY <2>1, NewSlotType DEF TableInv, TableOK, Places
  <2>3. /\ NewSlot(m).status = "START" /\ NewSlot(m).call = m.call /\ NewSlot(m).refs = 1
        /\ ~ NewSlot(m).started /\ ~ NewSlot(m).stopped /\ m.call # NoCall
    BY DEF NewSlot, FreeSlot, Messages
  <2>4. at["cap"] = NoSlot /\ at["rgl"] # s
    BY <2>1 DEF TableInv, PlacesOK, InHandInUse, InUse
  <2> HIDE <1>2
  <2>5. ControlInv'
    BY <2>1, <2>3, <2>4 DEF ControlInv, TableInv, TableOK, PlacesOK, InHandInUse,
       RefsExact, UsedHasCall, OneSlotPerCall,
       NewIsHeld, DeleteAfterMark, InUse, CapPlaces, RglPlaces, Ending
  <2> QED BY <2>2, <2>5, <1>0
<1>3. ASSUME NEW s \in Slots, NEW from \in Users \cup {NoUser},
NEW to \in Users \cup {NoUser},
             Link(s, from, to)
      PROVE  TableInv'
  <2>1. slot' = slot \/ slot' = [slot EXCEPT ![s] = [slot[s] EXCEPT !.reg = Found(from, to)]]
    BY <1>3 DEF Link, TableInv, TableOK
  <2>2. slot[s] \in SlotRec /\ [slot[s] EXCEPT !.reg = Found(from, to)] \in SlotRec
    BY FoundType, StoreType DEF TableInv, TableOK
  <2>3. \A r \in Slots : SameCore(r)
    <3>1. CASE slot' = slot
      BY <3>1 DEF SameCore
    <3>2. CASE slot' = [slot EXCEPT ![s] = [slot[s] EXCEPT !.reg = Found(from, to)]]
      BY <2>2, <3>2 DEF SameCore, TableInv, TableOK, SlotRec
    <3> QED BY <2>1, <3>1, <3>2
  <2>4. TableOK'
    BY <1>3, <2>1, <2>2 DEF Link, Goto, TableInv, TableOK, Places
  <2>5. ControlInv'
    BY <1>3, <2>3, MoveOn DEF Link, Goto
  <2> QED BY <2>4, <2>5, <1>0
<1>4. ASSUME NEW s \in Slots, AnnounceCall(s) PROVE TableInv'
  <2>1. CASE slot[s].started
    <3>1. \A r \in Slots : SameCore(r)
      BY <1>4, <2>1 DEF AnnounceCall, SameCore
    <3>2. TableOK'
      BY <1>4, <2>1 DEF AnnounceCall, Goto, TableInv, TableOK, Places
    <3>3. ControlInv'
      BY <1>4, <2>1, <3>1, MoveOn DEF AnnounceCall, Goto
    <3> QED BY <3>2, <3>3, <1>0
  <2>2. CASE ~ slot[s].started
    <3>1. /\ slot' = [slot EXCEPT ![s] = [slot[s] EXCEPT !.started = TRUE]]
          /\ [slot[s] EXCEPT !.started = TRUE] \in SlotRec
      BY <1>4, <2>2, StoreType DEF AnnounceCall, TableInv, TableOK
    <3>2. TableOK'
      BY <1>4, <3>1 DEF AnnounceCall, Goto, TableInv, TableOK, Places
    <3>3. /\ \A r \in Slots \ {s} : SameCore(r)
          /\ slot'[s].status = slot[s].status /\ slot'[s].call = slot[s].call
          /\ slot'[s].refs = slot[s].refs /\ slot'[s].stopped = slot[s].stopped
          /\ slot'[s].started
      BY <3>1 DEF SameCore, TableInv, TableOK, SlotRec
    <3>4. at["cap"] = s /\ at' = at /\ pc' = [pc EXCEPT !["cap"] = "media"]
          /\ pc["cap"] = "start"
      BY <1>4 DEF AnnounceCall, Goto
    <3>5. ControlInv'
      BY <3>3, <3>4 DEF SameCore, ControlInv, TableInv, TableOK, PlacesOK, InHandInUse,
         RefsExact, UsedHasCall, OneSlotPerCall,
       NewIsHeld, DeleteAfterMark, InUse, CapPlaces, RglPlaces, Ending
    <3> QED BY <3>2, <3>5, <1>0
  <2> QED BY <2>1, <2>2
<1>5. ASSUME NEW s \in Slots, AnnounceMedia(s) PROVE TableInv'
  <2> DEFINE e == [slot[s] EXCEPT !.old[slot[s].recv] = slot[s].rtp[slot[s].recv]]
  <2>1. slot' = slot \/ slot' = [slot EXCEPT ![s] = e]
    BY <1>5 DEF AnnounceMedia, TableInv, TableOK
  <2>2. /\ slot[s] \in SlotRec
        /\ e \in SlotRec
    <3>1. slot[s] \in SlotRec /\ slot[s].recv \in Sides
      BY DEF TableInv, TableOK, SlotRec
    <3> QED BY <3>1, StoreType
  <2>3. \A r \in Slots : SameCore(r)
    <3>1. CASE slot' = slot
      BY <3>1 DEF SameCore
    <3>2. CASE slot' = [slot EXCEPT ![s] = e]
      BY <2>2, <3>2 DEF SameCore, TableInv, TableOK, SlotRec
    <3> QED BY <2>1, <3>1, <3>2
  <2>4. TableOK'
    BY <1>5, <2>1, <2>2 DEF AnnounceMedia, Goto, TableInv, TableOK, Places
  <2>5. ControlInv'
    BY <1>5, <2>3, MoveOn DEF AnnounceMedia, Goto, BeforeMedia, CapPlaces
  <2> QED BY <2>4, <2>5, <1>0
<1>6. ASSUME NEW s \in Slots, CheckStopped(s) PROVE TableInv'
  <2>1. \A r \in Slots : SameCore(r)
    BY <1>6 DEF CheckStopped, tableVars, SameCore
  <2>2. TableOK'
    BY <1>6 DEF CheckStopped, tableVars, Goto, TableInv, TableOK, Places
  <2>3. ControlInv'
    BY <1>6, <2>1, MoveOn DEF CheckStopped, Goto, BeforeMedia, CapPlaces
  <2> QED BY <2>2, <2>3, <1>0
<1>7. ASSUME NEW s \in Slots, Release(s) PROVE TableInv'
  <2>1. slot[s].refs > 0 /\ slot[s].started
    BY <1>7 DEF Release, TableInv, RefsExact, NewIsHeld, InHandInUse
  <2>2. /\ slot' = [slot EXCEPT ![s] = [slot[s] EXCEPT !.refs = @ - 1]]
        /\ slot[s] \in SlotRec
        /\ [slot[s] EXCEPT !.refs = @ - 1] \in SlotRec
    BY <1>7, <2>1, StoreType DEF Release, TableInv, TableOK
  <2>3. TableOK'
    BY <1>7, <2>2 DEF Release, TableInv, TableOK, Places
  <2>4. /\ \A r \in Slots \ {s} : SameCore(r)
        /\ slot'[s].status = slot[s].status /\ slot'[s].call = slot[s].call
        /\ slot'[s].refs = slot[s].refs - 1
        /\ slot'[s].started = slot[s].started /\ slot'[s].stopped = slot[s].stopped
    BY <2>2 DEF SameCore, TableInv, TableOK, SlotRec
  <2>5. /\ at["cap"] = s /\ at' = [at EXCEPT !["cap"] = NoSlot]
        /\ pc' = [pc EXCEPT !["cap"] = "idle"]
    BY <1>7 DEF Release
  <2>6. ControlInv'
    <3> USE <2>1, <2>4, <2>5 DEF SameCore, TableInv, TableOK, InUse
    <3>1. PlacesOK'
      BY DEF PlacesOK, CapPlaces, RglPlaces
    <3>2. InHandInUse'
      BY DEF InHandInUse, PlacesOK
    <3>3. RefsExact'
      BY DEF RefsExact, PlacesOK, SlotRec
    <3>4. UsedHasCall' /\ OneSlotPerCall'
      BY DEF UsedHasCall, OneSlotPerCall
    <3>5. NewIsHeld'
      BY DEF NewIsHeld
    <3>6. DeleteAfterMark'
      BY DEF DeleteAfterMark, PlacesOK, Ending
    <3> QED BY <3>1, <3>2, <3>3, <3>4, <3>5, <3>6 DEF ControlInv
  <2> QED BY <2>3, <2>6, <1>0
<1>8. ASSUME NEW s \in Slots, NEW t \in Threads, MarkStopped(t, s) PROVE TableInv'
  <2>1. /\ slot' = [slot EXCEPT ![s] = [slot[s] EXCEPT !.stopped = TRUE]]
        /\ slot[s] \in SlotRec
        /\ [slot[s] EXCEPT !.stopped = TRUE] \in SlotRec
    BY <1>8, StoreType DEF MarkStopped, TableInv, TableOK
  <2>2. TableOK'
    BY <1>8, <2>1 DEF MarkStopped, Goto, TableInv, TableOK, Places
  <2>3. /\ \A r \in Slots \ {s} : SameCore(r)
        /\ slot'[s].status = slot[s].status /\ slot'[s].call = slot[s].call
        /\ slot'[s].refs = slot[s].refs /\ slot'[s].started = slot[s].started
        /\ slot'[s].stopped
    BY <2>1 DEF SameCore, TableInv, TableOK, SlotRec
  <2>4. /\ at[t] = s /\ at' = at /\ pc' = [pc EXCEPT ![t] = "end0"] /\ pc[t] = "mark"
    BY <1>8 DEF MarkStopped, Goto
  <2>5. InUse(s) /\ slot[s].started
    BY <2>4 DEF TableInv, InHandInUse, NewIsHeld
  <2>6. ControlInv'
    <3> USE <2>3, <2>4, <2>5 DEF SameCore, TableInv, TableOK, InUse
    <3>1. PlacesOK'
      BY DEF PlacesOK, CapPlaces, RglPlaces
    <3>2. InHandInUse'
      BY DEF InHandInUse, PlacesOK
    <3>3. RefsExact'
      BY DEF RefsExact, PlacesOK, SlotRec
    <3>4. UsedHasCall' /\ OneSlotPerCall'
      BY DEF UsedHasCall, OneSlotPerCall
    <3>5. NewIsHeld'
      BY DEF NewIsHeld
    <3>6. DeleteAfterMark'
      BY DEF DeleteAfterMark, PlacesOK, Ending
    <3> QED BY <3>1, <3>2, <3>3, <3>4, <3>5, <3>6 DEF ControlInv
  <2> QED BY <2>2, <2>6, <1>0
<1>9. ASSUME NEW s \in Slots, NEW t \in Threads, NEW d \in Sides,
             AnnounceEndOfSession(t, s, d)
      PROVE  TableInv'
  <2>1. \A r \in Slots : SameCore(r)
    BY <1>9 DEF AnnounceEndOfSession, tableVars, SameCore
  <2>2. TableOK'
    BY <1>9 DEF AnnounceEndOfSession, tableVars, Goto, TableInv, TableOK, Places
  <2>3. t = "rgl" => slot[at["rgl"]].stopped
    BY <1>9 DEF AnnounceEndOfSession, Goto, TableInv, DeleteAfterMark, Ending
  <2>4. ControlInv'
    BY <1>9, <2>1, <2>3, MoveOn
    DEF AnnounceEndOfSession, Goto, BeforeMedia, CapPlaces, RglPlaces
  <2> QED BY <2>2, <2>4, <1>0
<1>10. ASSUME NEW s \in Slots, NEW t \in Threads, AnnounceEndOfCall(t, s) PROVE TableInv'
  <2>1. \A r \in Slots : SameCore(r)
    BY <1>10 DEF AnnounceEndOfCall, tableVars, SameCore
  <2>2. TableOK'
    BY <1>10 DEF AnnounceEndOfCall, tableVars, Goto, TableInv, TableOK, Places
  <2>3. t = "rgl" => slot[at["rgl"]].stopped
    BY <1>10 DEF AnnounceEndOfCall, Goto, TableInv, DeleteAfterMark, Ending
  <2>4. ControlInv'
    BY <1>10, <2>1, <2>3, MoveOn
    DEF AnnounceEndOfCall, Goto, BeforeMedia, CapPlaces, RglPlaces
  <2> QED BY <2>2, <2>4, <1>0
<1>11. ASSUME NEW s \in Slots, Visit(s) PROVE TableInv'
  <2>1. TableOK'
    BY <1>11 DEF Visit, tableVars, TableInv, TableOK, Places
  <2>2. at["cap"] # s /\ slot[s].started
    BY <1>11 DEF Visit, TableInv, RefsExact, NewIsHeld
  <2>3. ControlInv'
    BY <1>11, <2>2 DEF Visit, tableVars, ControlInv, TableInv, TableOK, PlacesOK,
       InHandInUse, RefsExact, UsedHasCall, OneSlotPerCall,
       NewIsHeld, DeleteAfterMark, InUse, CapPlaces, RglPlaces, Ending
  <2> QED BY <2>1, <2>3, <1>0
<1>12. ASSUME NEW s \in Slots, Look(s) PROVE TableInv'
  <2>1. \A r \in Slots : SameCore(r)
    BY <1>12 DEF Look, tableVars, SameCore
  <2>2. TableOK'
    BY <1>12 DEF Look, tableVars, Goto, TableInv, TableOK, Places
  <2>3. \E q \in {"check", "expire"} : Goto("rgl", s, "look", q)
    BY <1>12 DEF Look
  <2>4. ControlInv'
    BY <2>1, <2>3, MoveOn DEF Goto, RglPlaces, Ending
  <2> QED BY <2>2, <2>4, <1>0
<1>13. ASSUME NEW s \in Slots, Pass(s) PROVE TableInv'
  <2>1. TableOK'
    BY <1>13 DEF Pass, tableVars, TableInv, TableOK, Places
  <2>2. ControlInv'
    BY <1>13 DEF Pass, tableVars, ControlInv, TableInv, TableOK, PlacesOK, InHandInUse,
       RefsExact, UsedHasCall, OneSlotPerCall,
       NewIsHeld, DeleteAfterMark, InUse, CapPlaces, RglPlaces, Ending
  <2> QED BY <2>1, <2>2, <1>0
<1>14. ASSUME NEW s \in Slots, Expire(s) PROVE TableInv'
  <2>1. /\ slot' = [slot EXCEPT ![s] = [slot[s] EXCEPT !.status = "STOP"]]
        /\ slot[s] \in SlotRec
        /\ [slot[s] EXCEPT !.status = "STOP"] \in SlotRec
    BY <1>14, StoreType DEF Expire, TableInv, TableOK
  <2>2. InUse(s)
    BY <1>14 DEF Expire, Goto, TableInv, InHandInUse
  <2>3. \A r \in Slots : SameCore(r)
    BY <2>1, <2>2 DEF SameCore, InUse, TableInv, TableOK, SlotRec
  <2>4. TableOK'
    BY <1>14, <2>1 DEF Expire, Goto, TableInv, TableOK, Places
  <2>5. ControlInv'
    BY <1>14, <2>3, MoveOn DEF Expire, Goto, RglPlaces, Ending
  <2> QED BY <2>4, <2>5, <1>0
<1>15. ASSUME NEW s \in Slots, CheckDelete(s) PROVE TableInv'
  <2>1. \A r \in Slots : SameCore(r)
    BY <1>15 DEF CheckDelete, tableVars, SameCore
  <2>2. TableOK'
    BY <1>15 DEF CheckDelete, tableVars, Goto, TableInv, TableOK, Places
  <2>3. ControlInv'
    BY <1>15, <2>1, MoveOn DEF CheckDelete, Goto, RglPlaces, Ending
  <2> QED BY <2>2, <2>3, <1>0
<1>16. ASSUME NEW s \in Slots, Delete(s) PROVE TableInv'
  <2>1. /\ pc["rgl"] = "finish" /\ at["rgl"] = s
        /\ pc' = [pc EXCEPT !["rgl"] = "idle"]
        /\ at' = [at EXCEPT !["rgl"] = NoSlot]
        /\ UNCHANGED <<registry, left>>
    BY <1>16 DEF Delete
  <2>2. InUse(s) /\ slot[s] \in SlotRec /\ slot[s].refs \in Nat
    BY <2>1 DEF TableInv, InHandInUse, TableOK, SlotRec
  <2>3. CASE slot[s].refs > 0
    <3>1. /\ slot' = [slot EXCEPT ![s] = [slot[s] EXCEPT !.status = "STOP"]]
          /\ [slot[s] EXCEPT !.status = "STOP"] \in SlotRec
      <4>1. slot' = [slot EXCEPT ![s] = [slot[s] EXCEPT !.status = "STOP"]]
        BY <1>16, <2>2, <2>3 DEF Delete, TableInv, TableOK
      <4> QED BY <4>1, <2>2, StoreType
    <3>2. \A r \in Slots : SameCore(r)
      BY <2>2, <3>1 DEF SameCore, InUse, TableInv, TableOK, SlotRec
    <3>3. TableOK'
      BY <2>1, <3>1 DEF TableInv, TableOK, Places
    <3>4. ControlInv'
      BY <2>1, <3>2 DEF SameCore, ControlInv, TableInv, TableOK, PlacesOK, InHandInUse,
         RefsExact, UsedHasCall, OneSlotPerCall,
       NewIsHeld, DeleteAfterMark, InUse, CapPlaces, RglPlaces, Ending
    <3> QED BY <3>3, <3>4, <1>0
  <2>4. CASE slot[s].refs <= 0
    <3>1. slot' = [slot EXCEPT ![s] = FreeSlot]
      BY <1>16, <2>2, <2>4 DEF Delete
    <3>2. at["cap"] # s
      BY <2>4 DEF TableInv, RefsExact
    <3>3. TableOK'
      BY <2>1, <3>1, FreeSlotType DEF TableInv, TableOK, Places
    <3>4. /\ FreeSlot.status = "NONE" /\ FreeSlot.call = NoCall /\ FreeSlot.refs = 0
          /\ ~ FreeSlot.started /\ ~ FreeSlot.stopped
      BY DEF FreeSlot
    <3>5. ControlInv'
      BY <2>1, <3>1, <3>2, <3>4 DEF ControlInv, TableInv, TableOK, PlacesOK, InHandInUse,
         RefsExact, UsedHasCall, OneSlotPerCall,
       NewIsHeld, DeleteAfterMark, InUse, CapPlaces, RglPlaces, Ending
    <3> QED BY <3>3, <3>5, <1>0
  <2> QED BY <2>2, <2>3, <2>4
<1>17. ASSUME NEW s \in Slots, FallSilent(s) PROVE TableInv'
  <2>1. /\ slot' = [slot EXCEPT ![s] = [slot[s] EXCEPT !.stale = TRUE]]
        /\ slot[s] \in SlotRec
        /\ [slot[s] EXCEPT !.stale = TRUE] \in SlotRec
    BY <1>17, StoreType DEF FallSilent, TableInv, TableOK
  <2>2. \A r \in Slots : SameCore(r)
    BY <2>1 DEF SameCore, TableInv, TableOK, SlotRec
  <2>3. TableOK'
    BY <1>17, <2>1 DEF FallSilent, TableInv, TableOK
  <2>4. ControlInv'
    BY <1>17, <2>2, StandStill DEF FallSilent
  <2> QED BY <2>3, <2>4, <1>0
<1>18. ASSUME NEW u \in Users, Enter(u) \/ Leave(u) PROVE TableInv'
  <2>1. TableOK' /\ \A r \in Slots : SameCore(r)
    BY <1>18 DEF Enter, Leave, TableInv, TableOK, SameCore
  <2>2. ControlInv'
    BY <1>18, <2>1, StandStill DEF Enter, Leave
  <2> QED BY <2>1, <2>2, <1>0
<1>19. CASE UNCHANGED vars
  <2>1. TableOK' /\ \A r \in Slots : SameCore(r)
    BY <1>19 DEF vars, TableInv, TableOK, SameCore
  <2>2. ControlInv'
    BY <1>19, <2>1, StandStill DEF vars
  <2> QED BY <2>1, <2>2, <1>0
<1> QED
  BY <1>1, <1>2, <1>3, <1>4, <1>5, <1>6, <1>7, <1>8, <1>9, <1>10, <1>11, <1>12, <1>13,
     <1>14, <1>15, <1>16, <1>17, <1>18, <1>19
  DEF Next, Receive, Work, End, Reglament, Environment
LEMMA AlwaysTableInv == Spec => []TableInv
  BY InitTableInv, StepTableInv, PTL DEF Spec

\* An endpoint once described is only ever replaced, never taken back.
MediaKept ==
  \A s \in Slots, d \in Sides : slot[s].rtp[d] = NoMedia => slot[s].old[d] = NoMedia

LEMMA StepMediaKept ==
  ASSUME TableInv, MediaKept, [Next]_vars PROVE MediaKept'
<1>1. TableOK /\ TableOK'
  BY StepTableInv DEF TableInv
<1> DEFINE SameMedia(r) == slot'[r].rtp = slot[r].rtp /\ slot'[r].old = slot[r].old
<1>2. (\A r \in Slots : SameMedia(r)) => MediaKept'
  BY DEF MediaKept
<1>3. ASSUME NEW s \in Slots, NEW m \in Messages, Search(s, m) PROVE MediaKept'
  <2> DEFINE e == slot[s]
             f == Touched(e, m)
  <2>1. slot' = [slot EXCEPT ![s] = f] /\ e \in SlotRec
    BY <1>1, <1>3 DEF Search, TableOK
  <2>2. /\ f.rtp = Describe(e.rtp, m.side, m.sdp)
        /\ f.old = IF m.sdp = NoMedia THEN e.old ELSE [e.old EXCEPT ![m.side] = e.rtp[m.side]]
    BY <2>1 DEF Touched, SlotRec
  <2>3. e.rtp \in [Sides -> Medias \cup {NoMedia}] /\ e.old \in [Sides -> Medias \cup {NoMedia}]
    BY <2>1 DEF SlotRec
  <2> HIDE DEF f
  <2>4. \A d \in Sides : f.rtp[d] = NoMedia => f.old[d] = NoMedia
    BY <2>2, <2>3 DEF Describe, MediaKept
  <2> QED BY <1>1, <2>1, <2>4 DEF MediaKept, TableOK
<1>4. ASSUME NEW s \in Slots, NEW m \in Messages, Insert(s, m) PROVE MediaKept'
  <2>1. slot' = [slot EXCEPT ![s] = NewSlot(m)] /\ NewSlot(m).old = NoTasks
    BY <1>4 DEF Insert, NewSlot, FreeSlot
  <2> QED BY <1>1, <2>1 DEF MediaKept, TableOK, NoTasks
<1>5. ASSUME NEW s \in Slots, AnnounceMedia(s) PROVE MediaKept'
  <2> DEFINE d == slot[s].recv
  <2>1. slot' = slot \/ slot' = [slot EXCEPT ![s] = [slot[s] EXCEPT !.old[d] = slot[s].rtp[d]]]
    BY <1>1, <1>5 DEF AnnounceMedia, TableOK
  <2>2. CASE slot' = slot
    BY <2>2 DEF MediaKept
  <2>3. CASE slot' = [slot EXCEPT ![s] = [slot[s] EXCEPT !.old[d] = slot[s].rtp[d]]]
    BY <1>1, <2>3 DEF MediaKept, TableOK, SlotRec
  <2> QED BY <2>1, <2>2, <2>3
<1>6. ASSUME NEW s \in Slots, Delete(s) PROVE MediaKept'
  <2>1. CASE slot' = [slot EXCEPT ![s].status = "STOP"]
    BY <1>1, <1>2, <2>1 DEF TableOK, SlotRec
  <2>2. CASE slot' = [slot EXCEPT ![s] = FreeSlot]
    BY <1>1, <2>2 DEF MediaKept, TableOK, FreeSlot, NoTasks
  <2> QED BY <1>6, <2>1, <2>2 DEF Delete
<1>7. ASSUME NEW s \in Slots, NEW from \in Users \cup {NoUser},
NEW to \in Users \cup {NoUser},
             Link(s, from, to)
      PROVE  MediaKept'
  BY <1>1, <1>2, <1>7 DEF Link, TableOK, SlotRec
<1>8. ASSUME NEW s \in Slots,
             AnnounceCall(s) \/ CheckStopped(s) \/ Release(s) \/ Visit(s) \/ Reglament(s)
               \/ (\E t \in Threads : End(t, s)),
             ~ Delete(s)
      PROVE  MediaKept'
  <2>1. \/ slot' = slot
        \/ slot' = [slot EXCEPT ![s].started = TRUE]
        \/ slot' = [slot EXCEPT ![s].stopped = TRUE]
        \/ slot' = [slot EXCEPT ![s].refs = @ - 1]
        \/ slot' = [slot EXCEPT ![s].status = "STOP"]
    BY <1>8
    DEF AnnounceCall, CheckStopped, Release, Visit, Reglament, Look, Pass, Expire,
    CheckDelete,
        End, MarkStopped, AnnounceEndOfSession, AnnounceEndOfCall, tableVars
  <2> QED BY <1>1, <1>2, <2>1 DEF TableOK, SlotRec
<1>9. ASSUME Environment PROVE MediaKept'
  <2>1. slot' = slot \/ \E s \in Slots : slot' = [slot EXCEPT ![s].stale = TRUE]
    BY <1>9 DEF Environment, FallSilent, Enter, Leave
  <2>2. \A r \in Slots : SameMedia(r)
    <3>1. CASE slot' = slot
      BY <3>1
    <3>2. ASSUME NEW s \in Slots, slot' = [slot EXCEPT ![s].stale = TRUE]
          PROVE  \A r \in Slots : SameMedia(r)
      BY <1>1, <3>2 DEF TableOK, SlotRec
    <3> QED BY <2>1, <3>1, <3>2
  <2> QED BY <1>2, <2>2
<1>10. CASE UNCHANGED vars
  BY <1>2, <1>10 DEF vars
<1> QED
  BY <1>3, <1>4, <1>5, <1>6, <1>7, <1>8, <1>9, <1>10 DEF Next, Receive, Work, Reglament

-----------------------------------------------------------------------------
(* What the listener of CSIPManager hears. *)

\* A call the manager holds is in a slot that has announced it.
CallHeld ==
  \A c \in DOMAIN calls : \E s \in Slots : slot[s].call = c /\ slot[s].started

\* Once is_send_stop is set, the manager keeps the call only as long as a
\* thread is on its way to announce the end.
EndDone ==
  \A s \in Slots :
    slot[s].stopped /\ (\A t \in Threads : at[t] = s => pc[t] \notin Ending)
      => slot[s].call \notin DOMAIN calls

CallsOK ==
  /\ DOMAIN calls \subseteq CallIds
  /\ heard \in [CallIds -> Int]
  /\ CallEventsAlternate /\ CallHeld /\ EndDone

IdsOK == nextId \in Nat /\ IdsFromMsgs

IInv == TableInv /\ MediaKept /\ CallsOK /\ IdsOK

ManagerStep == Manager!Next \/ UNCHANGED Manager!managerVars

LEMMA InitIInv == Init => IInv
<1>1. Init => MediaKept
  BY DEF Init, MediaKept, FreeSlot, NoTasks
<1> SUFFICES ASSUME Init PROVE CallsOK /\ IdsOK
  BY <1>1, InitTableInv DEF IInv
<1> QED
  BY DEF Init, Manager!Init, Manager!EmptyManager, CallsOK, CallEventsAlternate, CallHeld,
         EndDone, IdsOK, IdsFromMsgs, FreeSlot, BeforeMedia

\* The fields that CallsOK is about.
SameCall(r) ==
  /\ slot'[r].call = slot[r].call
  /\ slot'[r].started = slot[r].started
  /\ slot'[r].stopped = slot[r].stopped

\* A thread that is announcing an end goes on with it.
EndersStay ==
  \A t \in Threads : pc[t] \in Ending => pc'[t] \in Ending /\ at'[t] = at[t]

\* A step that the listener does not hear as a start or an end.
LEMMA QuietStep ==
  ASSUME CallsOK, \A r \in Slots : SameCall(r), EndersStay, UNCHANGED <<calls, heard>>
  PROVE  CallsOK'
<1> USE DEF CallsOK, SameCall
<1>1. CallEventsAlternate'
  BY DEF CallEventsAlternate
<1>2. CallHeld'
  BY DEF CallHeld
<1>3. EndDone'
  BY DEF EndDone, EndersStay
<1> QED BY <1>1, <1>2, <1>3

\* A step in which the manager is not called.
LEMMA SilentStep ==
  ASSUME CallsOK, IdsOK, \A r \in Slots : SameCall(r), EndersStay, UNCHANGED managerVars,
         IdsFromMsgs'
  PROVE  CallsOK' /\ IdsOK' /\ ManagerStep
  BY QuietStep DEF managerVars, IdsOK, ManagerStep, Manager!managerVars

LEMMA StepCalls ==
  ASSUME IInv, [Next]_vars
  PROVE  CallsOK' /\ IdsOK' /\ ManagerStep
<1> USE DEF IInv
<1>0. TableInv' /\ TableOK /\ TableOK'
  BY StepTableInv DEF TableInv
<1> DEFINE Goal == CallsOK' /\ IdsOK' /\ ManagerStep
<1>1. ASSUME NEW s \in Slots, NEW m \in Messages, Search(s, m) PROVE Goal
  <2>1. \A r \in Slots : SameCall(r)
    <3>1. slot' = [slot EXCEPT ![s] = Touched(slot[s], m)] /\ slot[s] \in SlotRec
      BY <1>0, <1>1 DEF Search, TableOK
    <3>2. /\ Touched(slot[s], m).call = slot[s].call
          /\ Touched(slot[s], m).started = slot[s].started
          /\ Touched(slot[s], m).stopped = slot[s].stopped
      BY <3>1 DEF Touched, SlotRec
    <3> QED BY <1>0, <3>1, <3>2 DEF SameCall, TableOK
  <2>2. EndersStay
    BY <1>0, <1>1 DEF Search, TakeInHand, EndersStay, Ending, TableOK
  <2>3. IdsFromMsgs' /\ UNCHANGED managerVars
    BY <1>0, <1>1 DEF Search, TakeInHand, IdsOK, IdsFromMsgs, BeforeMedia, TableOK,
       managerVars
  <2> QED BY <2>1, <2>2, <2>3, SilentStep
<1>2. ASSUME NEW s \in Slots, NEW m \in Messages, Insert(s, m) PROVE Goal
  <2>1. /\ slot' = [slot EXCEPT ![s] = NewSlot(m)]
        /\ ~ slot[s].started /\ ~ slot'[s].stopped
    BY <1>0, <1>2 DEF Insert, NewSlot, FreeSlot, TableInv, UsedHasCall, TableOK, SlotRec
  <2>2. EndersStay
    BY <1>0, <1>2 DEF Insert, TakeInHand, EndersStay, Ending, TableOK
  <2>3. IdsFromMsgs' /\ UNCHANGED managerVars
    BY <1>0, <1>2 DEF Insert, TakeInHand, IdsOK, IdsFromMsgs, BeforeMedia, TableOK,
       managerVars
  <2>4. CallHeld'
    BY <1>0, <2>1, <2>3 DEF CallsOK, CallHeld, managerVars, TableOK
  <2>5. EndDone'
    BY <1>0, <2>1, <2>2, <2>3 DEF CallsOK, EndDone, EndersStay, managerVars, TableOK
  <2> QED
    BY <2>3, <2>4, <2>5
    DEF CallsOK, CallEventsAlternate, managerVars, IdsOK, ManagerStep, Manager!managerVars
<1>3. ASSUME NEW s \in Slots, NEW from \in Users \cup {NoUser}, NEW to \in Users \cup {NoUser},
             Link(s, from, to)
      PROVE  Goal
  <2>1. \A r \in Slots : SameCall(r)
    BY <1>0, <1>3 DEF Link, SameCall, TableOK, SlotRec
  <2>2. EndersStay /\ UNCHANGED managerVars
    BY <1>0, <1>3 DEF Link, Goto, EndersStay, Ending, TableOK
  <2>3. IdsFromMsgs'
    BY <1>0, <1>3 DEF Link, Goto, IdsOK, IdsFromMsgs, BeforeMedia, TableOK, managerVars
  <2> QED BY <2>1, <2>2, <2>3, SilentStep
<1>4. ASSUME NEW s \in Slots, AnnounceCall(s) PROVE Goal
  <2>0. /\ EndersStay
        /\ left' = left /\ pc["cap"] = "start" /\ at["cap"] = s
        /\ pc' = [pc EXCEPT !["cap"] = "media"] /\ at' = at
    BY <1>0, <1>4 DEF AnnounceCall, Goto, EndersStay, Ending, TableOK
  <2>1. CASE slot[s].started
    <3>1. UNCHANGED <<slot, managerVars>>
      BY <1>4, <2>1 DEF AnnounceCall
    <3>2. \A r \in Slots : SameCall(r)
      BY <3>1 DEF SameCall
    <3>3. IdsFromMsgs'
      BY <1>0, <2>0, <3>1 DEF IdsOK, IdsFromMsgs, BeforeMedia, TableOK, managerVars
    <3> QED BY <2>0, <3>1, <3>2, <3>3, SilentStep
  <2>2. CASE ~ slot[s].started
    <3> DEFINE c == slot[s].call
    <3>1. InUse(s) /\ c \in CallIds
      BY <1>0, <2>0 DEF TableInv, InHandInUse, UsedHasCall, TableOK, SlotRec
    <3>2. c \notin DOMAIN calls
      BY <2>2, <3>1 DEF TableInv, CallsOK, CallHeld, OneSlotPerCall, UsedHasCall
    <3>3. Manager!CbOnCallStart(c)
      BY <1>4, <2>2 DEF AnnounceCall
    <3>4. /\ DOMAIN calls' = DOMAIN calls \cup {c}
          /\ heard' = [heard EXCEPT ![c] = @ + 1]
          /\ nextId' = nextId
      BY <3>3 DEF Manager!CbOnCallStart, Manager!Bind
    <3>5. /\ \A r \in Slots \ {s} : SameCall(r)
          /\ slot'[s].call = c /\ slot'[s].started /\ slot'[s].stopped = slot[s].stopped
      BY <1>0, <1>4, <2>2 DEF AnnounceCall, SameCall, TableOK, SlotRec
    <3>6. CallEventsAlternate' /\ heard' \in [CallIds -> Int] /\ DOMAIN calls' \subseteq CallIds
      BY <3>1, <3>2, <3>4 DEF CallsOK, CallEventsAlternate
    <3>7. CallHeld'
      BY <3>4, <3>5 DEF CallsOK, CallHeld, SameCall
    <3>8. ~ slot[s].stopped
      BY <2>2, <3>1 DEF TableInv, NewIsHeld
    <3>9. EndDone'
      <4> SUFFICES ASSUME NEW r \in Slots, slot'[r].stopped,
                          \A t \in Threads : at'[t] = r => pc'[t] \notin Ending
                   PROVE  slot'[r].call \notin DOMAIN calls'
        BY DEF EndDone
      <4>1. r # s /\ SameCall(r)
        BY <3>5, <3>8
      <4>2. \A t \in Threads : at[t] = r => pc[t] \notin Ending
        BY <2>0 DEF EndersStay
      <4>3. slot[r].call \notin DOMAIN calls
        BY <4>1, <4>2 DEF CallsOK, EndDone, SameCall
      <4>4. slot[r].call # c
        BY <4>1, <3>1 DEF TableInv, OneSlotPerCall
      <4> QED BY <3>4, <4>1, <4>3, <4>4 DEF SameCall
    <3>10. IdsOK'
      BY <1>0, <2>0, <3>4 DEF IdsOK, IdsFromMsgs, BeforeMedia, TableOK
    <3>11. ManagerStep
      BY <3>1, <3>2, <3>3 DEF ManagerStep, Manager!Next
    <3> QED BY <3>6, <3>7, <3>9, <3>10, <3>11 DEF CallsOK
  <2> QED BY <2>1, <2>2
<1>5. ASSUME NEW s \in Slots, AnnounceMedia(s) PROVE Goal
  <2> DEFINE d == slot[s].recv
             m == slot[s].rtp[d]
  <2>1. \A r \in Slots : SameCall(r)
    <3>1. slot' = slot \/ slot' = [slot EXCEPT ![s] = [slot[s] EXCEPT !.old[d] = m]]
      BY <1>0, <1>5 DEF AnnounceMedia, TableOK
    <3> QED BY <1>0, <3>1 DEF SameCall, TableOK, SlotRec
  <2>2. /\ EndersStay
        /\ left' = left /\ pc["cap"] = "media" /\ at["cap"] = s /\ pc'["cap"] = "check"
    BY <1>0, <1>5 DEF AnnounceMedia, Goto, EndersStay, Ending, TableOK
  <2>3. <<s, d>> \in Tasks /\ slot[s].call \in CallIds
    BY <1>0, <2>2 DEF Tasks, TableInv, InHandInUse, UsedHasCall, TableOK, SlotRec
  <2>4. nextId \in Nat /\ nextId <= MaxMsgs
    BY <1>0, <2>2 DEF IdsOK, IdsFromMsgs, BeforeMedia, TableOK
  <2>5. CASE m = slot[s].old[d]
    <3>1. UNCHANGED managerVars
      BY <1>5, <2>5 DEF AnnounceMedia
    <3>2. IdsFromMsgs'
      BY <1>0, <2>2, <3>1 DEF IdsOK, IdsFromMsgs, BeforeMedia, TableOK, managerVars
    <3> QED BY <2>1, <2>2, <3>1, <3>2, SilentStep
  <2>6. CASE m # slot[s].old[d]
    <3>1. m \in Medias
      BY <1>0, <2>6 DEF MediaKept, TableOK, SlotRec
    <3>2. \/ Manager!CbOnNewSession(<<s, d>>, slot[s].call, m)
          \/ Manager!CbOnUpdateSession(<<s, d>>, m)
      BY <1>5, <2>6 DEF AnnounceMedia
    <3>3. UNCHANGED <<calls, heard>> /\ (nextId' = nextId \/ nextId' = nextId + 1)
      BY <3>2 DEF Manager!CbOnNewSession, Manager!CbOnUpdateSession
    <3>4. CallsOK'
      BY <2>1, <2>2, <3>3, QuietStep
    <3>5. IdsOK'
      BY <1>0, <2>2, <3>3 DEF IdsOK, IdsFromMsgs, BeforeMedia, TableOK
    <3>6. ManagerStep
      BY <2>3, <2>4, <3>1, <3>2 DEF ManagerStep, Manager!Next
    <3> QED BY <3>4, <3>5, <3>6
  <2> QED BY <2>5, <2>6
<1>6. ASSUME NEW s \in Slots, CheckStopped(s) PROVE Goal
  <2>1. \A r \in Slots : SameCall(r)
    BY <1>0, <1>6 DEF CheckStopped, Goto, tableVars, SameCall, TableOK, SlotRec
  <2>2. EndersStay /\ UNCHANGED managerVars
    BY <1>0, <1>6 DEF CheckStopped, Goto, tableVars, EndersStay, Ending, TableOK
  <2>3. IdsFromMsgs'
    BY <1>0, <1>6 DEF CheckStopped, Goto, tableVars, IdsOK, IdsFromMsgs, BeforeMedia,
       TableOK, managerVars
  <2> QED BY <2>1, <2>2, <2>3, SilentStep
<1>7. ASSUME NEW s \in Slots, Release(s) PROVE Goal
  <2>1. \A r \in Slots : SameCall(r)
    BY <1>0, <1>7 DEF Release, SameCall, TableOK, SlotRec
  <2>2. EndersStay /\ UNCHANGED managerVars
    BY <1>0, <1>7 DEF Release, EndersStay, Ending, TableOK
  <2>3. IdsFromMsgs'
    BY <1>0, <1>7 DEF Release, IdsOK, IdsFromMsgs, BeforeMedia, TableOK, managerVars
  <2> QED BY <2>1, <2>2, <2>3, SilentStep
<1>8. ASSUME NEW s \in Slots, NEW t \in Threads, MarkStopped(t, s) PROVE Goal
  <2>1. /\ EndersStay /\ UNCHANGED managerVars
        /\ at[t] = s /\ at' = at /\ pc[t] = "mark" /\ pc' = [pc EXCEPT ![t] = "end0"]
        /\ left' = left
    BY <1>0, <1>8 DEF MarkStopped, Goto, EndersStay, Ending, TableOK
  <2>2. /\ \A r \in Slots \ {s} : SameCall(r)
        /\ slot'[s].call = slot[s].call /\ slot'[s].started = slot[s].started
    BY <1>0, <1>8 DEF MarkStopped, SameCall, TableOK, SlotRec
  <2>3. CallHeld'
    BY <2>1, <2>2 DEF CallsOK, CallHeld, SameCall, managerVars
  <2>4. EndDone'
    BY <1>0, <2>1, <2>2 DEF CallsOK, EndDone, EndersStay, SameCall, Ending, TableOK,
       managerVars
  <2>5. IdsOK'
    BY <1>0, <2>1 DEF IdsOK, IdsFromMsgs, BeforeMedia, TableOK, managerVars
  <2> QED
    BY <2>1, <2>3, <2>4, <2>5
    DEF CallsOK, CallEventsAlternate, managerVars, ManagerStep, Manager!managerVars
<1>9. ASSUME NEW s \in Slots, NEW t \in Threads, NEW d \in Sides,
             AnnounceEndOfSession(t, s, d)
      PROVE  Goal
  <2>1. /\ EndersStay /\ left' = left /\ UNCHANGED slot
        /\ pc[t] \in Ending /\ pc' = [pc EXCEPT ![t] = IF d = 0 THEN "end1" ELSE "endCall"]
    BY <1>0, <1>9 DEF AnnounceEndOfSession, Goto, tableVars, EndersStay, Ending, TableOK
  <2>2. Manager!CbOnEndSession(<<s, d>>) /\ <<s, d>> \in Tasks
    BY <1>9 DEF AnnounceEndOfSession, Tasks
  <2>3. UNCHANGED <<calls, heard, nextId>>
    BY <2>2 DEF Manager!CbOnEndSession
  <2>4. CallsOK'
    BY <2>1, <2>3, QuietStep DEF SameCall
  <2>5. IdsOK'
    BY <1>0, <2>1, <2>3 DEF IdsOK, IdsFromMsgs, BeforeMedia, TableOK
  <2>6. ManagerStep
    BY <2>2 DEF ManagerStep, Manager!Next
  <2> QED BY <2>4, <2>5, <2>6
<1>10. ASSUME NEW s \in Slots, NEW t \in Threads, AnnounceEndOfCall(t, s) PROVE Goal
  <2> DEFINE c == slot[s].call
  <2>1. /\ UNCHANGED <<slot, at, left>>
        /\ at[t] = s /\ pc[t] = "endCall" /\ pc' = [pc EXCEPT ![t] = "finish"]
        /\ Manager!CbOnCallEnd(c)
    BY <1>10 DEF AnnounceEndOfCall, Goto, tableVars
  <2>2. InUse(s) /\ c \in CallIds
    BY <1>0, <2>1 DEF TableInv, InHandInUse, UsedHasCall, TableOK, SlotRec
  <2>3. /\ DOMAIN calls' = DOMAIN calls \ {c}
        /\ heard' = IF c \in DOMAIN calls THEN [heard EXCEPT ![c] = @ - 1] ELSE heard
        /\ nextId' = nextId
    BY <2>1 DEF Manager!CbOnCallEnd, Manager!Without
  <2>4. CallEventsAlternate' /\ heard' \in [CallIds -> Int] /\ DOMAIN calls' \subseteq CallIds
    BY <2>2, <2>3 DEF CallsOK, CallEventsAlternate
  <2>5. CallHeld'
    BY <2>1, <2>3 DEF CallsOK, CallHeld
  <2>6. EndDone'
    <3> SUFFICES ASSUME NEW r \in Slots, slot[r].stopped,
                        \A u \in Threads : at[u] = r => pc'[u] \notin Ending
                 PROVE  slot[r].call \notin DOMAIN calls'
      BY <2>1 DEF EndDone
    <3>1. CASE r = s
      BY <2>3, <3>1
    <3>2. CASE r # s
      <4>1. \A u \in Threads : at[u] = r => pc[u] \notin Ending
        BY <1>0, <2>1, <3>2 DEF TableOK
      <4> QED BY <2>3, <4>1 DEF CallsOK, EndDone
    <3> QED BY <3>1, <3>2
  <2>7. IdsOK'
    BY <1>0, <2>1, <2>3 DEF IdsOK, IdsFromMsgs, BeforeMedia, TableOK
  <2>8. ManagerStep
    BY <2>1, <2>2 DEF ManagerStep, Manager!Next
  <2> QED BY <2>4, <2>5, <2>6, <2>7, <2>8 DEF CallsOK
<1>11. ASSUME NEW s \in Slots, Visit(s) PROVE Goal
  <2>1. \A r \in Slots : SameCall(r)
    BY <1>0, <1>11 DEF Visit, tableVars, SameCall, TableOK, SlotRec
  <2>2. EndersStay /\ UNCHANGED managerVars
    BY <1>0, <1>11 DEF Visit, tableVars, EndersStay, Ending, TableOK
  <2>3. IdsFromMsgs'
    BY <1>0, <1>11 DEF Visit, tableVars, IdsOK, IdsFromMsgs, BeforeMedia, TableOK,
       managerVars
  <2> QED BY <2>1, <2>2, <2>3, SilentStep
<1>12. ASSUME NEW s \in Slots, Look(s) PROVE Goal
  <2>1. \A r \in Slots : SameCall(r)
    BY <1>0, <1>12 DEF Look, Goto, tableVars, SameCall, TableOK, SlotRec
  <2>2. EndersStay /\ UNCHANGED managerVars
    BY <1>0, <1>12 DEF Look, Goto, tableVars, EndersStay, Ending, TableOK
  <2>3. IdsFromMsgs'
    BY <1>0, <1>12 DEF Look, Goto, tableVars, IdsOK, IdsFromMsgs, BeforeMedia, TableOK,
       managerVars
  <2> QED BY <2>1, <2>2, <2>3, SilentStep
<1>13. ASSUME NEW s \in Slots, Pass(s) PROVE Goal
  <2>1. \A r \in Slots : SameCall(r)
    BY <1>0, <1>13 DEF Pass, tableVars, SameCall, TableOK, SlotRec
  <2>2. EndersStay /\ UNCHANGED managerVars
    BY <1>0, <1>13 DEF Pass, tableVars, EndersStay, Ending, TableOK
  <2>3. IdsFromMsgs'
    BY <1>0, <1>13 DEF Pass, tableVars, IdsOK, IdsFromMsgs, BeforeMedia, TableOK,
       managerVars
  <2> QED BY <2>1, <2>2, <2>3, SilentStep
<1>14. ASSUME NEW s \in Slots, Expire(s) PROVE Goal
  <2>1. \A r \in Slots : SameCall(r)
    BY <1>0, <1>14 DEF Expire, Goto, SameCall, TableOK, SlotRec
  <2>2. EndersStay /\ UNCHANGED managerVars
    BY <1>0, <1>14 DEF Expire, Goto, EndersStay, Ending, TableOK
  <2>3. IdsFromMsgs'
    BY <1>0, <1>14 DEF Expire, Goto, IdsOK, IdsFromMsgs, BeforeMedia, TableOK, managerVars
  <2> QED BY <2>1, <2>2, <2>3, SilentStep
<1>15. ASSUME NEW s \in Slots, CheckDelete(s) PROVE Goal
  <2>1. \A r \in Slots : SameCall(r)
    BY <1>0, <1>15 DEF CheckDelete, Goto, tableVars, SameCall, TableOK, SlotRec
  <2>2. EndersStay /\ UNCHANGED managerVars
    BY <1>0, <1>15 DEF CheckDelete, Goto, tableVars, EndersStay, Ending, TableOK
  <2>3. IdsFromMsgs'
    BY <1>0, <1>15 DEF CheckDelete, Goto, tableVars, IdsOK, IdsFromMsgs, BeforeMedia,
       TableOK, managerVars
  <2> QED BY <2>1, <2>2, <2>3, SilentStep
<1>16. ASSUME NEW s \in Slots, Delete(s) PROVE Goal
  <2>1. /\ EndersStay /\ UNCHANGED managerVars
        /\ pc["rgl"] = "finish" /\ at["rgl"] = s /\ left' = left /\ pc'["cap"] = pc["cap"]
    BY <1>0, <1>16 DEF Delete, EndersStay, Ending, TableOK
  <2>2. IdsFromMsgs'
    BY <1>0, <2>1 DEF IdsOK, IdsFromMsgs, BeforeMedia, TableOK, managerVars
  <2>3. slot[s].refs \in Nat
    BY <1>0 DEF TableOK, SlotRec
  <2>4. CASE slot[s].refs > 0
    <3>1. \A r \in Slots : SameCall(r)
      BY <1>0, <1>16, <2>3, <2>4 DEF Delete, SameCall, TableOK, SlotRec
    <3> QED BY <2>1, <2>2, <3>1, SilentStep
  <2>5. CASE slot[s].refs <= 0
    <3>1. slot' = [slot EXCEPT ![s] = FreeSlot] /\ ~ FreeSlot.stopped
      BY <1>16, <2>3, <2>5 DEF Delete, FreeSlot
    <3>2. slot[s].stopped /\ at["cap"] # s
      BY <2>1, <2>5 DEF TableInv, DeleteAfterMark, RefsExact
    <3>3. slot[s].call \notin DOMAIN calls
      BY <2>1, <3>2 DEF CallsOK, EndDone, Ending
    <3>4. CallHeld'
      BY <1>0, <2>1, <3>1, <3>3 DEF CallsOK, CallHeld, managerVars, TableOK
    <3>5. EndDone'
      BY <1>0, <2>1, <3>1 DEF CallsOK, EndDone, EndersStay, managerVars, TableOK
    <3> QED
      BY <2>1, <2>2, <3>4, <3>5
      DEF CallsOK, CallEventsAlternate, managerVars, IdsOK, ManagerStep, Manager!managerVars
  <2> QED BY <2>3, <2>4, <2>5
<1>17. ASSUME NEW s \in Slots, FallSilent(s) PROVE Goal
  <2>1. \A r \in Slots : SameCall(r)
    BY <1>0, <1>17 DEF FallSilent, SameCall, TableOK, SlotRec
  <2>2. EndersStay /\ UNCHANGED managerVars
    BY <1>0, <1>17 DEF FallSilent, EndersStay, Ending, TableOK
  <2>3. IdsFromMsgs'
    BY <1>0, <1>17 DEF FallSilent, IdsOK, IdsFromMsgs, BeforeMedia, TableOK, managerVars
  <2> QED BY <2>1, <2>2, <2>3, SilentStep
<1>18. ASSUME NEW u \in Users, Enter(u) \/ Leave(u) PROVE Goal
  <2>1. \A r \in Slots : SameCall(r)
    BY <1>0, <1>18 DEF Enter, Leave, SameCall, TableOK, SlotRec
  <2>2. EndersStay /\ UNCHANGED managerVars
    BY <1>0, <1>18 DEF Enter, Leave, EndersStay, Ending, TableOK
  <2>3. IdsFromMsgs'
    BY <1>0, <1>18 DEF Enter, Leave, IdsOK, IdsFromMsgs, BeforeMedia, TableOK, managerVars
  <2> QED BY <2>1, <2>2, <2>3, SilentStep
<1>19. CASE UNCHANGED vars
  <2>1. (\A r \in Slots : SameCall(r)) /\ EndersStay /\ UNCHANGED managerVars /\ IdsFromMsgs'
    BY <1>19 DEF vars, managerVars, SameCall, EndersStay, IdsOK, IdsFromMsgs
  <2> QED BY <2>1, SilentStep
<1> QED
  BY <1>1, <1>2, <1>3, <1>4, <1>5, <1>6, <1>7, <1>8, <1>9, <1>10, <1>11, <1>12, <1>13,
     <1>14, <1>15, <1>16, <1>17, <1>18, <1>19
  DEF Next, Receive, Work, End, Reglament, Environment

LEMMA StepIInv == IInv /\ [Next]_vars => IInv'
  BY StepTableInv, StepMediaKept, StepCalls DEF IInv

LEMMA AlwaysIInv == Spec => []IInv
  BY InitIInv, StepIInv, PTL DEF Spec

-----------------------------------------------------------------------------
(* Results. *)

\* No use after free: a slot in the hands of a thread stays allocated.
THEOREM NoUseAfterFree == Spec => []InHandInUse
  BY AlwaysTableInv, PTL DEF TableInv

\* col_session is exactly the capture thread's hold on the slot.
THEOREM UseCountsExact == Spec => []RefsExact
  BY AlwaysTableInv, PTL DEF TableInv

\* A slot is protected by its count as long as a thread works on it, and no longer.
THEOREM HeldSlotsStay == Spec => []HeldSlotsKept
  BY NoUseAfterFree, UseCountsExact, PTL DEF HeldSlotsKept

\* A Call-ID has one slot at most.
THEOREM CallsNotDoubled == Spec => []OneSlotPerCall
  BY AlwaysTableInv, PTL DEF TableInv

\* The listener hears starts and ends of a call in turn.
THEOREM EventsAlternate == Spec => []CallEventsAlternate
  BY AlwaysIInv, PTL DEF IInv, CallsOK

\* No slot is freed before the end of its call was announced.
THEOREM EndsNotLost == Spec => []NoOrphanCall
<1>1. IInv => NoOrphanCall
  BY DEF IInv, CallsOK, CallHeld, NoOrphanCall
<1> QED BY <1>1, AlwaysIInv, PTL

\* The table and its two threads use CSIPManager as SipManager allows.
THEOREM TableImplementsManager == Spec => ImplementsManager
<1>1. Init => Manager!Init
  BY DEF Init
<1>2. IInv /\ [Next]_vars => [Manager!Next]_Manager!managerVars
  BY StepCalls DEF ManagerStep
<1> QED BY <1>1, <1>2, AlwaysIInv, PTL DEF Spec, ImplementsManager, Manager!Spec

\* The inductive invariant of CSIPManager holds under the two threads.
LEMMA AlwaysManagerInv == Spec => []ManagerProofs!IInv
<1> DEFINE MInv == ManagerProofs!IInv
<1>1. Init => MInv
  BY ManagerProofs!InitIInv DEF Init, Manager!Init, Manager!EmptyManager,
     ManagerProofs!Init, ManagerProofs!EmptyManager
<1>2. Manager!Next => ManagerProofs!Next
  BY DEF Manager!Next, ManagerProofs!Next, Manager!CbOnCallStart,
         ManagerProofs!CbOnCallStart, Manager!CbOnCallEnd, ManagerProofs!CbOnCallEnd,
         Manager!CbOnNewSession, ManagerProofs!CbOnNewSession, Manager!CbOnEndSession,
         ManagerProofs!CbOnEndSession, Manager!CbOnUpdateSession,
         ManagerProofs!CbOnUpdateSession, Manager!DeleteSessions,
         ManagerProofs!DeleteSessions, Manager!GetSessionID, ManagerProofs!GetSessionID,
         Manager!Bind, ManagerProofs!Bind, Manager!Without, ManagerProofs!Without
<1>3. MInv /\ [Manager!Next]_Manager!managerVars => MInv'
  BY <1>2, ManagerProofs!StepIInv DEF Manager!managerVars, ManagerProofs!managerVars
<1> HIDE DEF MInv
<1>4. Spec => []MInv
  BY <1>1, <1>3, TableImplementsManager, PTL DEF Spec, ImplementsManager, Manager!Spec
<1> QED BY <1>4 DEF MInv

\* What is proved of CSIPManager on its own holds under the two threads: every
\* callback finds the session of its own task, and the recorder holds exactly
\* the sessions that CSIPManager holds.
THEOREM ManagerStaysConsistent ==
  Spec => [](Manager!TypeOK /\ Manager!TaskIndex /\ Manager!RecorderInStep)
<1>1. ManagerProofs!IInv => Manager!TypeOK /\ Manager!TaskIndex /\ Manager!RecorderInStep
  BY DEF ManagerProofs!IInv, ManagerProofs!TypeOK, ManagerProofs!TaskIndex,
     ManagerProofs!RecorderInStep, ManagerProofs!SessionRec,
     Manager!TypeOK, Manager!TaskIndex, Manager!RecorderInStep, Manager!SessionRec
<1> QED BY <1>1, AlwaysManagerInv, PTL

\* Counting links is an integer whatever is counted.
LEMMA LinkCountInt ==
  ASSUME NEW D, D \subseteq Sides PROVE Cardinality(D) \in Int
<1>1. IsFiniteSet(Sides)
  <2>1. IsFiniteSet({0}) /\ IsFiniteSet({0} \cup {1})
    BY FS_EmptySet, FS_AddElement, FS_Singleton
  <2> QED BY <2>1 DEF Sides
<1> QED BY <1>1, FS_Subset, FS_CardinalityType

LEMMA StepRegRefs ==
  ASSUME regRefs \in [Users -> Int], [Next]_vars PROVE regRefs' \in [Users -> Int]
<1>1. ASSUME NEW s \in Slots, NEW from \in Users \cup {NoUser}, NEW to \in Users \cup {NoUser},
             Link(s, from, to)
      PROVE  regRefs' \in [Users -> Int]
  <2> DEFINE n(u) == Cardinality({d \in Sides : Found(from, to)[d] = u})
  <2>1. \A u \in Users : n(u) \in Int
    BY LinkCountInt
  <2>2. regRefs' = regRefs \/ regRefs' = [u \in Users |-> regRefs[u] + n(u)]
    BY <1>1, Zenon DEF Link
  <2> HIDE DEF n
  <2> QED BY <2>1, <2>2
<1>2. ASSUME NEW s \in Slots, Delete(s) PROVE regRefs' \in [Users -> Int]
  <2> DEFINE n(u) == Cardinality({d \in Sides : slot[s].reg[d] = u})
  <2>1. \A u \in Users : n(u) \in Int
    BY LinkCountInt
  <2>2. regRefs' = regRefs \/ regRefs' = [u \in Users |-> regRefs[u] - n(u)]
    BY <1>2, Zenon DEF Delete
  <2> HIDE DEF n
  <2> QED BY <2>1, <2>2
<1>3. ASSUME NEW s \in Slots,
             \/ Receive(s) \/ AnnounceCall(s) \/ AnnounceMedia(s) \/ CheckStopped(s)
             \/ Release(s) \/ Visit(s) \/ Look(s) \/ Pass(s) \/ Expire(s) \/ CheckDelete(s)
             \/ \E t \in Threads : End(t, s)
      PROVE  UNCHANGED regRefs
  BY <1>3
  DEF Receive, Search, Insert, TakeInHand, AnnounceCall, AnnounceMedia, CheckStopped,
  Release,
      Visit, Look, Pass, Expire, CheckDelete, End, MarkStopped, AnnounceEndOfSession,
      AnnounceEndOfCall, tableVars
<1>4. Environment \/ UNCHANGED vars => UNCHANGED regRefs
  BY DEF Environment, FallSilent, Enter, Leave, vars
<1> QED BY <1>1, <1>2, <1>3, <1>4 DEF Next, Work, Reglament

\* Type correctness of the table, of both threads and of CSIPManager.
THEOREM TypeCorrect == Spec => []TypeOK
<1> DEFINE Counted == regRefs \in [Users -> Int]
<1>1. Init => Counted
  BY DEF Init
<1>2. Counted /\ [Next]_vars => Counted'
  BY StepRegRefs
<1>3. TableInv /\ Counted /\ Manager!TypeOK => TypeOK
  BY DEF TableInv, TableOK, TypeOK
<1> HIDE DEF Counted
<1> QED BY <1>1, <1>2, <1>3, AlwaysTableInv, ManagerStaysConsistent, PTL DEF Spec

\* Once is_send_stop of a slot is set, its call is never announced as new.
THEOREM EndsAreFinal == Spec => EndIsFinal
<1> DEFINE Final ==
      \A s \in Slots :
        slot[s].stopped /\ slot'[s].call = slot[s].call /\ slot[s].call # NoCall
          => heard'[slot[s].call] <= heard[slot[s].call]
<1>1. ASSUME IInv, Next PROVE Final
  <2>1. heard \in [CallIds -> Int] /\ \A s \in Slots : slot[s].call # NoCall => slot[s].call \in CallIds
    BY <1>1 DEF IInv, CallsOK, TableInv, TableOK, SlotRec
  <2>2. ASSUME UNCHANGED heard PROVE Final
    BY <2>1, <2>2
  <2>3. ASSUME NEW r \in Slots, AnnounceCall(r) PROVE Final
    <3>1. CASE slot[r].started
      BY <2>2, <2>3, <3>1 DEF AnnounceCall, managerVars
    <3>2. CASE ~ slot[r].started
      <4>1. heard' = [heard EXCEPT ![slot[r].call] = @ + 1]
        BY <2>3, <3>2 DEF AnnounceCall, Manager!CbOnCallStart
      <4>2. InUse(r)
        BY <1>1, <2>3 DEF AnnounceCall, Goto, IInv, TableInv, InHandInUse
      <4>3. \A s \in Slots : slot[s].stopped => slot[s].call # slot[r].call
        BY <1>1, <3>2, <4>2 DEF IInv, TableInv, NewIsHeld, OneSlotPerCall
      <4> QED BY <2>1, <4>1, <4>3
    <3> QED BY <3>1, <3>2
  <2>4. ASSUME NEW r \in Slots, NEW t \in Threads, AnnounceEndOfCall(t, r) PROVE Final
    <3>1. heard' = heard \/ heard' = [heard EXCEPT ![slot[r].call] = @ - 1]
      BY <2>4 DEF AnnounceEndOfCall, Manager!CbOnCallEnd
    <3> QED BY <2>1, <3>1
  <2>5. ASSUME NEW r \in Slots,
               \/ Receive(r) \/ CheckStopped(r) \/ Release(r) \/ Visit(r) \/ Reglament(r)
               \/ \E from, to \in Users \cup {NoUser} : Link(r, from, to)
        PROVE  UNCHANGED heard
    BY <2>5
    DEF Receive, Search, Insert, TakeInHand, CheckStopped, Release, Visit, Reglament, Look,
    Pass,
        Expire, CheckDelete, Delete, Link, managerVars
  <2>6. ASSUME NEW r \in Slots, AnnounceMedia(r) PROVE UNCHANGED heard
    BY <2>6
    DEF AnnounceMedia, Manager!CbOnNewSession, Manager!CbOnUpdateSession, managerVars
  <2>7. ASSUME NEW r \in Slots, NEW t \in Threads,
               MarkStopped(t, r) \/ \E d \in Sides : AnnounceEndOfSession(t, r, d)
        PROVE  UNCHANGED heard
    BY <2>7 DEF MarkStopped, AnnounceEndOfSession, Manager!CbOnEndSession, managerVars
  <2>8. Environment => UNCHANGED heard
    BY DEF Environment, FallSilent, Enter, Leave, managerVars
  <2> QED BY <1>1, <2>2, <2>3, <2>4, <2>5, <2>6, <2>7, <2>8 DEF Next, Work, End
<1> HIDE DEF Final
<1>2. IInv /\ [Next]_vars => [Final]_vars
  BY <1>1
<1>3. Spec => [][Final]_vars
  BY <1>2, AlwaysIInv, PTL DEF Spec
<1> QED BY <1>3 DEF EndIsFinal, Final

-----------------------------------------------------------------------------
(* Where the recorder listens. *)

\* The message in hand may have brought an endpoint of this side that is not
\* announced yet.
Unannounced(s, d) ==
  at["cap"] = s /\ pc["cap"] \in BeforeMedia /\ slot[s].recv = d

\* Apart from that, the endpoint a slot has is the one it has announced ...
CopiesAgree ==
  \A s \in Slots, d \in Sides : ~ Unannounced(s, d) => slot[s].rtp[d] = slot[s].old[d]

\* ... and what was announced last is where the recorder listens.
ListensToCopy ==
  \A s \in Slots, d \in Sides :
    slot[s].old[d] # NoMedia /\ tasks[<<s, d>>] # 0
      => recorder[tasks[<<s, d>>]] = slot[s].old[d]

FollowInv == CopiesAgree /\ ListensToCopy

\* Where the recorder listens for task t does not change, unless its session ends.
KeepsTask(t) ==
  tasks'[t] # 0 => tasks'[t] = tasks[t] /\ recorder'[tasks[t]] = recorder[tasks[t]]

\* The end of sessions takes away the recorder's sessions of no other task.
LEMMA DeleteKeepsTasks ==
  ASSUME ManagerProofs!IInv, NEW S, Manager!DeleteSessions(S), NEW t \in Tasks
  PROVE  KeepsTask(t)
<1> SUFFICES ASSUME tasks'[t] # 0
             PROVE  tasks'[t] = tasks[t] /\ recorder'[tasks[t]] = recorder[tasks[t]]
  BY DEF KeepsTask
<1>1. tasks'[t] = tasks[t] /\ \A i \in S \cap DOMAIN sessions : sessions[i].task # t
  BY DEF Manager!DeleteSessions
<1>2. tasks[t] \in DOMAIN sessions /\ sessions[tasks[t]].task = t
  BY <1>1 DEF ManagerProofs!IInv, ManagerProofs!TaskIndex
<1>3. tasks[t] \in DOMAIN recorder
  BY <1>2 DEF ManagerProofs!IInv, ManagerProofs!RecorderInStep
<1> QED BY <1>1, <1>2, <1>3 DEF Manager!DeleteSessions, Manager!Without

\* The callbacks that announce an endpoint leave the other tasks alone, and the
\* recorder listens to it as far as the task has a session.
LEMMA AnnounceKeepsTasks ==
  ASSUME ManagerProofs!IInv, NEW t \in Tasks, NEW c, NEW m,
         Manager!CbOnNewSession(t, c, m) \/ Manager!CbOnUpdateSession(t, m)
  PROVE  /\ \A x \in Tasks \ {t} : KeepsTask(x)
         /\ tasks'[t] # 0 => recorder'[tasks'[t]] = m
<1>1. /\ tasks \in [Tasks -> Nat] /\ nextId \in Nat \ {0}
      /\ DOMAIN recorder = DOMAIN sessions
      /\ \A x \in Tasks : tasks[x] # 0 =>
           /\ tasks[x] \in DOMAIN sessions /\ sessions[tasks[x]].task = x
           /\ tasks[x] < nextId
  BY DEF ManagerProofs!IInv, ManagerProofs!TypeOK, ManagerProofs!TaskIndex,
         ManagerProofs!RecorderInStep, ManagerProofs!IdsBelowNext
<1>2. CASE Manager!CbOnNewSession(t, c, m)
  BY <1>1, <1>2 DEF Manager!CbOnNewSession, Manager!Bind, KeepsTask
<1>3. CASE Manager!CbOnUpdateSession(t, m)
  BY <1>1, <1>3 DEF Manager!CbOnUpdateSession, Manager!GetSessionID, KeepsTask
<1> QED BY <1>2, <1>3

\* A step that leaves the endpoints of the slots as they are.
SameMedia(s) ==
  slot'[s].rtp = slot[s].rtp /\ slot'[s].old = slot[s].old /\ slot'[s].recv = slot[s].recv

\* A step that changes no endpoint, and moves on in no message before its
\* endpoint is announced.
LEMMA SameFollow ==
  ASSUME FollowInv, \A s \in Slots : SameMedia(s),
         \A t \in Slots \X Sides : KeepsTask(t),
         \A s \in Slots, d \in Sides : Unannounced(s, d) => Unannounced(s, d)'
  PROVE  FollowInv'
<1>1. CopiesAgree'
  BY DEF FollowInv, CopiesAgree, SameMedia
<1>2. ListensToCopy'
  <2> SUFFICES ASSUME NEW s \in Slots, NEW d \in Sides,
                      slot'[s].old[d] # NoMedia, tasks'[<<s, d>>] # 0
               PROVE  recorder'[tasks'[<<s, d>>]] = slot'[s].old[d]
    BY DEF ListensToCopy
  <2>1. KeepsTask(<<s, d>>)
    OBVIOUS
  <2> QED BY <2>1 DEF KeepsTask, SameMedia, FollowInv, ListensToCopy
<1> QED BY <1>1, <1>2 DEF FollowInv

\* The stores into a slot that have nothing to do with its endpoints.
LEMMA StoreKeepsMedia ==
  ASSUME TableOK, NEW s \in Slots, NEW e,
         slot' = [slot EXCEPT ![s] = e],
         \/ \E l : e = [slot[s] EXCEPT !.reg = l]
         \/ e = [slot[s] EXCEPT !.started = TRUE]
         \/ e = [slot[s] EXCEPT !.stopped = TRUE]
         \/ e = [slot[s] EXCEPT !.stale = TRUE]
         \/ e = [slot[s] EXCEPT !.refs = @ - 1]
         \/ e = [slot[s] EXCEPT !.status = "STOP"]
  PROVE  \A r \in Slots : SameMedia(r)
<1>1. slot[s] \in SlotRec
  BY DEF TableOK
<1>2. e.rtp = slot[s].rtp /\ e.old = slot[s].old /\ e.recv = slot[s].recv
  BY <1>1 DEF SlotRec
<1>3. slot'[s] = e /\ \A r \in Slots \ {s} : slot'[r] = slot[r]
  BY DEF TableOK
<1> QED BY <1>2, <1>3 DEF SameMedia

LEMMA StepFollow ==
  ASSUME TableInv, ManagerProofs!IInv, FollowInv, [Next]_vars PROVE FollowInv'
<1>1. TableOK /\ TableOK' /\ PlacesOK
  BY StepTableInv DEF TableInv
<1>2. UNCHANGED managerVars => \A t \in Slots \X Sides : KeepsTask(t)
  BY DEF managerVars, KeepsTask
<1>3. ASSUME NEW s \in Slots, NEW m \in Messages, Search(s, m) PROVE FollowInv'
  <2> DEFINE e == slot[s]
             f == Touched(e, m)
  <2>1. /\ slot' = [slot EXCEPT ![s] = f] /\ e \in SlotRec
        /\ UNCHANGED managerVars
        /\ pc["cap"] = "idle" /\ at'["cap"] = s /\ pc'["cap"] \in BeforeMedia
    BY <1>1, <1>3 DEF Search, TakeInHand, TableOK, BeforeMedia
  <2>2. /\ f.rtp = Describe(e.rtp, m.side, m.sdp) /\ f.recv = m.side
        /\ f.old = IF m.sdp = NoMedia THEN e.old ELSE [e.old EXCEPT ![m.side] = e.rtp[m.side]]
    BY <2>1 DEF Touched, SlotRec
  <2>3. e.rtp \in [Sides -> Medias \cup {NoMedia}] /\ e.old \in [Sides -> Medias \cup {NoMedia}]
    BY <2>1 DEF SlotRec
  <2> HIDE DEF f
  <2>4. \A r \in Slots, d \in Sides : slot[r].rtp[d] = slot[r].old[d]
    BY <2>1 DEF FollowInv, CopiesAgree, Unannounced, BeforeMedia
  <2>5. \A d \in Sides : f.old[d] = e.old[d] /\ (d # m.side => f.rtp[d] = e.rtp[d])
    BY <2>2, <2>3, <2>4 DEF Describe
  <2>6. slot'[s] = f /\ \A r \in Slots \ {s} : slot'[r] = slot[r]
    BY <1>1, <2>1 DEF TableOK
  <2>7. CopiesAgree'
    <3> SUFFICES ASSUME NEW r \in Slots, NEW d \in Sides, ~ Unannounced(r, d)'
                 PROVE  slot'[r].rtp[d] = slot'[r].old[d]
      BY DEF CopiesAgree
    <3>1. CASE r # s
      BY <2>4, <2>6, <3>1
    <3>2. CASE r = s
      <4>1. d # m.side
        BY <2>1, <2>2, <2>6, <3>2 DEF Unannounced
      <4> QED BY <2>4, <2>5, <2>6, <3>2, <4>1
    <3> QED BY <3>1, <3>2
  <2>8. \A r \in Slots, d \in Sides : slot'[r].old[d] = slot[r].old[d]
    BY <2>5, <2>6
  <2>9. ListensToCopy'
    BY <2>1, <2>8 DEF FollowInv, ListensToCopy, managerVars
  <2> QED BY <2>7, <2>9 DEF FollowInv
<1>4. ASSUME NEW s \in Slots, NEW m \in Messages, Insert(s, m) PROVE FollowInv'
  <2>1. /\ slot' = [slot EXCEPT ![s] = NewSlot(m)] /\ UNCHANGED managerVars
        /\ pc["cap"] = "idle" /\ at'["cap"] = s /\ pc'["cap"] \in BeforeMedia
    BY <1>1, <1>4 DEF Insert, TakeInHand, TableOK, BeforeMedia
  <2>2. /\ NewSlot(m).old = NoTasks /\ NewSlot(m).recv = 0
        /\ NewSlot(m).rtp[1] = NoMedia
    BY DEF NewSlot, FreeSlot, Describe, NoTasks, Sides
  <2>3. slot'[s] = NewSlot(m) /\ \A r \in Slots \ {s} : slot'[r] = slot[r]
    BY <1>1, <2>1 DEF TableOK
  <2>4. CopiesAgree'
    BY <2>1, <2>2, <2>3 DEF FollowInv, CopiesAgree, Unannounced, NoTasks, Sides, BeforeMedia
  <2>5. ListensToCopy'
    BY <2>1, <2>2, <2>3 DEF FollowInv, ListensToCopy, managerVars, NoTasks
  <2> QED BY <2>4, <2>5 DEF FollowInv
<1>5. ASSUME NEW s \in Slots, AnnounceMedia(s) PROVE FollowInv'
  <2> DEFINE d == slot[s].recv
             m == slot[s].rtp[d]
  <2>1. /\ pc["cap"] = "media" /\ at["cap"] = s /\ at' = at /\ pc'["cap"] = "check"
        /\ d \in Sides /\ slot[s] \in SlotRec
    BY <1>1, <1>5 DEF AnnounceMedia, Goto, TableOK, SlotRec
  <2>2. \A r \in Slots, x \in Sides : <<r, x>> # <<s, d>> => slot[r].rtp[x] = slot[r].old[x]
    BY <2>1 DEF FollowInv, CopiesAgree, Unannounced
  <2>3. /\ slot'[s].old[d] = m /\ slot'[s].rtp = slot[s].rtp
        /\ \A r \in Slots, x \in Sides :
             <<r, x>> # <<s, d>> => /\ slot'[r].old[x] = slot[r].old[x]
                                    /\ slot'[r].rtp[x] = slot[r].rtp[x]
    <3>1. \/ slot' = slot /\ m = slot[s].old[d]
          \/ slot' = [slot EXCEPT ![s] = [slot[s] EXCEPT !.old[d] = m]]
      BY <1>1, <1>5 DEF AnnounceMedia, TableOK
    <3> HIDE DEF d, m
    <3>2. CASE slot' = slot /\ m = slot[s].old[d]
      BY <3>2
    <3>3. CASE slot' = [slot EXCEPT ![s] = [slot[s] EXCEPT !.old[d] = m]]
      <4>1. slot'[s] = [slot[s] EXCEPT !.old[d] = m] /\ \A r \in Slots \ {s} : slot'[r] = slot[r]
        BY <1>1, <3>3 DEF TableOK
      <4>2. /\ slot'[s].old = [slot[s].old EXCEPT ![d] = m] /\ slot'[s].rtp = slot[s].rtp
            /\ slot[s].old \in [Sides -> Medias \cup {NoMedia}]
        BY <2>1, <4>1 DEF SlotRec
      <4>3. slot'[s].old[d] = m /\ \A x \in Sides : x # d => slot'[s].old[x] = slot[s].old[x]
        BY <2>1, <4>2
      <4> QED BY <4>1, <4>2, <4>3
    <3> QED BY <3>1, <3>2, <3>3
  <2>4. /\ \A x \in (Slots \X Sides) \ {<<s, d>>} : KeepsTask(x)
        /\ m # NoMedia /\ tasks'[<<s, d>>] # 0 => recorder'[tasks'[<<s, d>>]] = m
    <3>1. CASE m = slot[s].old[d]
      <4>1. UNCHANGED managerVars
        BY <1>5, <3>1 DEF AnnounceMedia
      <4> QED BY <1>2, <2>1, <3>1, <4>1 DEF FollowInv, ListensToCopy, managerVars
    <3>2. CASE m # slot[s].old[d]
      <4>1. \/ Manager!CbOnNewSession(<<s, d>>, slot[s].call, m)
            \/ Manager!CbOnUpdateSession(<<s, d>>, m)
        BY <1>5, <3>2 DEF AnnounceMedia
      <4>2. <<s, d>> \in Tasks /\ Tasks = Slots \X Sides
        BY <2>1 DEF Tasks
      <4> HIDE DEF d, m
      <4> QED BY <4>1, <4>2, AnnounceKeepsTasks
    <3> QED BY <3>1, <3>2
  <2> HIDE DEF d, m
  <2>5. CopiesAgree'
    <3>1. m = slot[s].rtp[d]
      BY DEF m
    <3> SUFFICES ASSUME NEW r \in Slots, NEW x \in Sides
                 PROVE  slot'[r].rtp[x] = slot'[r].old[x]
      BY DEF CopiesAgree
    <3> QED BY <2>1, <2>2, <2>3, <3>1
  <2>6. ListensToCopy'
    <3> SUFFICES ASSUME NEW r \in Slots, NEW x \in Sides,
                        slot'[r].old[x] # NoMedia, tasks'[<<r, x>>] # 0
                 PROVE  recorder'[tasks'[<<r, x>>]] = slot'[r].old[x]
      BY DEF ListensToCopy
    <3>1. CASE r = s /\ x = d
      BY <2>3, <2>4, <3>1
    <3>2. CASE <<r, x>> # <<s, d>>
      <4>1. KeepsTask(<<r, x>>) /\ slot'[r].old[x] = slot[r].old[x]
        BY <2>3, <2>4, <3>2
      <4> QED BY <4>1 DEF KeepsTask, FollowInv, ListensToCopy
    <3> QED BY <3>1, <3>2
  <2> QED BY <2>5, <2>6 DEF FollowInv
<1>6. ASSUME NEW s \in Slots, Delete(s) PROVE FollowInv'
  <2>1. /\ UNCHANGED managerVars /\ at' = [at EXCEPT !["rgl"] = NoSlot]
        /\ pc' = [pc EXCEPT !["rgl"] = "idle"]
        /\ \/ slot' = [slot EXCEPT ![s].status = "STOP"]
           \/ slot' = [slot EXCEPT ![s] = FreeSlot]
    BY <1>6 DEF Delete
  <2>2. at'["cap"] = at["cap"] /\ pc'["cap"] = pc["cap"]
    BY <1>1, <2>1 DEF TableOK
  <2>3. CASE slot' = [slot EXCEPT ![s].status = "STOP"]
    <3>1. \A r \in Slots : SameMedia(r)
      BY <1>1, <2>3 DEF TableOK, SlotRec, SameMedia
    <3>2. \A r \in Slots, d \in Sides : Unannounced(r, d) => Unannounced(r, d)'
      BY <2>2, <3>1 DEF Unannounced, SameMedia
    <3> QED BY <1>2, <2>1, <3>1, <3>2, SameFollow
  <2>4. CASE slot' = [slot EXCEPT ![s] = FreeSlot]
    <3>1. slot'[s] = FreeSlot /\ \A r \in Slots \ {s} : slot'[r] = slot[r]
      BY <1>1, <2>4 DEF TableOK
    <3>2. FreeSlot.old = NoTasks /\ FreeSlot.rtp = NoTasks
      BY DEF FreeSlot
    <3>3. CopiesAgree'
      BY <2>2, <3>1, <3>2 DEF FollowInv, CopiesAgree, Unannounced
    <3>4. ListensToCopy'
      BY <2>1, <3>1, <3>2 DEF FollowInv, ListensToCopy, NoTasks, managerVars
    <3> QED BY <3>3, <3>4 DEF FollowInv
  <2> QED BY <2>1, <2>3, <2>4
<1>7. ASSUME NEW s \in Slots,
             \/ \E from, to \in Users \cup {NoUser} : Link(s, from, to)
             \/ AnnounceCall(s) \/ CheckStopped(s) \/ Release(s) \/ Visit(s) \/ Look(s)
             \/ Pass(s) \/ Expire(s) \/ CheckDelete(s)
             \/ (\E t \in Threads : End(t, s))
      PROVE  FollowInv'
  <2>1. \/ slot' = slot
        \/ \E l : slot' = [slot EXCEPT ![s] = [slot[s] EXCEPT !.reg = l]]
        \/ slot' = [slot EXCEPT ![s] = [slot[s] EXCEPT !.started = TRUE]]
        \/ slot' = [slot EXCEPT ![s] = [slot[s] EXCEPT !.stopped = TRUE]]
        \/ slot' = [slot EXCEPT ![s] = [slot[s] EXCEPT !.refs = @ - 1]]
        \/ slot' = [slot EXCEPT ![s] = [slot[s] EXCEPT !.status = "STOP"]]
    BY <1>1, <1>7
    DEF Link, AnnounceCall, CheckStopped, Release, Visit, Look, Pass, Expire, CheckDelete,
        End, MarkStopped, AnnounceEndOfSession, AnnounceEndOfCall, tableVars, TableOK
  <2>2. \A r \in Slots : SameMedia(r)
    <3>1. CASE slot' = slot
      BY <3>1 DEF SameMedia
    <3> QED BY <1>1, <2>1, <3>1, StoreKeepsMedia, Zenon
  <2>3. \A t \in Slots \X Sides : KeepsTask(t)
    <3>1. \/ UNCHANGED managerVars \/ Manager!CbOnCallStart(slot[s].call)
          \/ \E d \in Sides : Manager!CbOnEndSession(<<s, d>>)
          \/ Manager!CbOnCallEnd(slot[s].call)
      BY <1>7
      DEF Link, AnnounceCall, CheckStopped, Release, Visit, Look, Pass, Expire, CheckDelete,
          End, MarkStopped, AnnounceEndOfSession, AnnounceEndOfCall
    <3>2. \/ UNCHANGED <<tasks, recorder>>
          \/ \E S : Manager!DeleteSessions(S)
      BY <3>1 DEF managerVars, Manager!CbOnCallStart, Manager!CbOnEndSession,
                  Manager!CbOnCallEnd
    <3> QED BY <3>2, DeleteKeepsTasks DEF KeepsTask, Tasks
  <2>4. \A r \in Slots, d \in Sides : Unannounced(r, d) => Unannounced(r, d)'
    <3>1. pc["cap"] \in BeforeMedia => at'["cap"] = at["cap"] /\ pc'["cap"] \in BeforeMedia
      <4>1. CASE \E from, to \in Users \cup {NoUser} : Link(s, from, to)
        BY <1>1, <4>1 DEF Link, Goto, TableOK, BeforeMedia
      <4>2. CASE AnnounceCall(s)
        BY <1>1, <4>2 DEF AnnounceCall, Goto, TableOK, BeforeMedia
      <4>3. CASE CheckStopped(s) \/ Release(s)
        BY <1>1, <4>3 DEF CheckStopped, Release, Goto, TableOK, BeforeMedia
      <4>4. CASE Visit(s) \/ Look(s) \/ Pass(s) \/ Expire(s) \/ CheckDelete(s)
        BY <1>1, <4>4 DEF Visit, Look, Pass, Expire, CheckDelete, Goto, TableOK
      <4>5. ASSUME NEW t \in Threads, End(t, s)
            PROVE  pc["cap"] \in BeforeMedia => at' = at /\ pc'["cap"] = pc["cap"]
        <5>1. pc[t] \in {"mark", "end0", "end1", "endCall"} /\ at' = at
              /\ \E q : pc' = [pc EXCEPT ![t] = q]
          BY <4>5 DEF End, MarkStopped, AnnounceEndOfSession, AnnounceEndOfCall, Goto, Sides
        <5> QED BY <1>1, <5>1 DEF BeforeMedia, TableOK
      <4> QED BY <1>7, <4>1, <4>2, <4>3, <4>4, <4>5
    <3> QED BY <2>2, <3>1 DEF Unannounced, SameMedia
  <2> QED BY <2>2, <2>3, <2>4, SameFollow
<1>8. CASE Environment \/ UNCHANGED vars
  <2>1. /\ UNCHANGED <<pc, at, managerVars>>
        /\ slot' = slot \/ \E s \in Slots : slot' = [slot EXCEPT ![s] = [slot[s] EXCEPT !.stale = TRUE]]
    BY <1>1, <1>8 DEF TableOK, Environment, FallSilent, Enter, Leave, vars
  <2>2. \A r \in Slots : SameMedia(r)
    <3>1. CASE slot' = slot
      BY <3>1 DEF SameMedia
    <3> QED BY <1>1, <2>1, <3>1, StoreKeepsMedia, Zenon
  <2>3. \A r \in Slots, d \in Sides : Unannounced(r, d) => Unannounced(r, d)'
    BY <2>1, <2>2 DEF Unannounced, SameMedia
  <2> QED BY <1>2, <2>1, <2>2, <2>3, SameFollow
<1> QED
  BY <1>3, <1>4, <1>5, <1>6, <1>7, <1>8 DEF Next, Receive, Work, Reglament

\* The recorder listens where the last SDP body of a side said, once the message
\* that brought it has been handled, whatever the two threads do meanwhile.
THEOREM RecorderAlwaysFollows == Spec => []RecorderFollowsMedia
<1>1. Init => FollowInv
  BY DEF Init, FollowInv, CopiesAgree, ListensToCopy, FreeSlot, NoTasks
<1>2. FollowInv => RecorderFollowsMedia
  BY DEF FollowInv, CopiesAgree, ListensToCopy, RecorderFollowsMedia, Unannounced
<1> QED BY <1>1, <1>2, StepFollow, AlwaysTableInv, AlwaysManagerInv, PTL DEF Spec

-----------------------------------------------------------------------------
(* The links from the calls to the registry. *)

LinksTo(u) == {l \in Slots \X Sides : slot[l[1]].reg[l[2]] = u}

\* A slot that is not in use has no links: what a new call starts from.
FreeHasNoLinks == \A s \in Slots : ~ InUse(s) => slot[s].reg = NoLinks

\* The use counts are those of the users, and of nobody else.
RefsOfUsers == regRefs = [u \in Users |-> regRefs[u]]

LInv == FreeHasNoLinks /\ RefsOfUsers /\ LinksCounted

LEMMA LinksFinite ==
  ASSUME NEW u
  PROVE  /\ IsFiniteSet(Sides) /\ IsFiniteSet(Slots \X Sides)
         /\ IsFiniteSet(LinksTo(u)) /\ Cardinality(LinksTo(u)) \in Nat
<1>1. IsFiniteSet(Sides)
  <2>1. IsFiniteSet({0}) /\ IsFiniteSet({0} \cup {1})
    BY FS_AddElement, FS_Singleton
  <2> QED BY <2>1 DEF Sides
<1>2. IsFiniteSet(Slots \X Sides)
  BY <1>1, FS_Product
<1>3. IsFiniteSet(LinksTo(u))
  BY <1>2, FS_Subset DEF LinksTo
<1> QED BY <1>1, <1>2, <1>3, FS_CardinalityType

\* The links of one slot, as pairs and as sides, are as many.
LEMMA SlotLinks ==
  ASSUME NEW s \in Slots, NEW D, D \subseteq Sides
  PROVE  /\ IsFiniteSet({s} \X D) /\ Cardinality({s} \X D) = Cardinality(D)
         /\ Cardinality(D) \in Nat
<1>1. IsFiniteSet(D) /\ Cardinality(D) \in Nat
  BY LinksFinite, FS_Subset, FS_CardinalityType
<1>2. IsFiniteSet({s}) /\ Cardinality({s}) = 1
  BY FS_Singleton
<1>3. IsFiniteSet({s} \X D) /\ Cardinality({s} \X D) = Cardinality({s}) * Cardinality(D)
  BY <1>1, <1>2, FS_Product
<1> QED BY <1>1, <1>2, <1>3

\* Counting what is added to, or taken from, a set of links.
LEMMA CountAdded ==
  ASSUME NEW A, NEW B, NEW C, IsFiniteSet(A), IsFiniteSet(B), A \cap B = {}, C = A \cup B
  PROVE  IsFiniteSet(C) /\ Cardinality(C) = Cardinality(A) + Cardinality(B)
<1>1. Cardinality(A) \in Nat /\ Cardinality(B) \in Nat
  BY FS_CardinalityType
<1>2. Cardinality(A \cap B) = 0
  BY FS_EmptySet
<1>3. IsFiniteSet(A \cup B)
      /\ Cardinality(A \cup B) = Cardinality(A) + Cardinality(B) - Cardinality(A \cap B)
  BY FS_Union
<1> QED BY <1>1, <1>2, <1>3

LEMMA CountTaken ==
  ASSUME NEW A, NEW B, NEW C, IsFiniteSet(A), A \cap B = B, C = A \ B
  PROVE  IsFiniteSet(C) /\ Cardinality(C) = Cardinality(A) - Cardinality(B)
<1>1. IsFiniteSet(A \ B) /\ Cardinality(A \ B) = Cardinality(A) - Cardinality(A \cap B)
  BY FS_Difference
<1>2. C = A \ B /\ A \cap B = B
  OBVIOUS
<1>3. IsFiniteSet(C) /\ Cardinality(C) = Cardinality(A) - Cardinality(A \cap B)
  BY <1>1, <1>2
<1> QED BY <1>2, <1>3

\* Nothing changes that the count is about.
LEMMA SameLinks ==
  ASSUME LInv, regRefs' = regRefs, registry \subseteq registry',
         \A s \in Slots : slot'[s].reg = slot[s].reg
  PROVE  LinksCounted'
<1>1. \A u : LinksTo(u)' = LinksTo(u)
  BY DEF LinksTo
<1>2. \A u \in Users : regRefs[u] = Cardinality(LinksTo(u)) /\ (regRefs[u] > 0 => u \in registry)
  BY DEF LInv, LinksCounted, LinksTo
<1>3. \A u \in Users : regRefs'[u] = Cardinality(LinksTo(u)')
                        /\ (regRefs'[u] > 0 => u \in registry')
  BY <1>1, <1>2
<1> QED BY <1>3 DEF LinksCounted, LinksTo

LEMMA RefsNat == LInv => \A u \in Users : regRefs[u] \in Nat
BY LinksFinite DEF LInv, LinksCounted, LinksTo

LEMMA RefsNatNext ==
  ASSUME LInv'
  PROVE  regRefs' \in [Users -> Nat]
<1>1. ASSUME NEW u \in Users PROVE regRefs'[u] \in Nat
  <2>1. IsFiniteSet(LinksTo(u)')
    <3>1. LinksTo(u)' \subseteq Slots \X Sides
      BY DEF LinksTo
    <3> QED BY <3>1, LinksFinite, FS_Subset
  <2>2. Cardinality(LinksTo(u)') \in Nat
    BY <2>1, FS_CardinalityType
  <2>3. regRefs'[u] = Cardinality(LinksTo(u)')
    BY DEF LInv, LinksCounted, LinksTo
  <2> QED BY <2>2, <2>3
<1>2. regRefs' = [u \in Users |-> regRefs'[u]]
  BY DEF LInv, RefsOfUsers
<1> QED BY <1>1, <1>2

\* Two parties are linked: each link is counted at its entry, which is there.
LEMMA LinkLinks ==
  ASSUME TableInv, LInv, NEW s \in Slots, NEW from \in Users \cup {NoUser},
         NEW to \in Users \cup {NoUser}, Link(s, from, to)
  PROVE  LInv' /\ \A u \in Users : regRefs'[u] = regRefs[u] \/ u \in registry
<1> DEFINE new == Found(from, to)
           D(u) == {d \in Sides : new[d] = u}
<1>1. slot \in [Slots -> SlotRec] /\ registry' = registry
  BY DEF TableInv, TableOK, Link
<1>2. new \in [Sides -> Users \cup {NoUser}] /\ \A d \in Sides : new[d] \in registry \cup {NoUser}
  BY FoundType DEF Found
<1>3. FreeHasNoLinks'
  <2>1. InUse(s)
    BY DEF Link, Goto, TableInv, InHandInUse
  <2>2. \A r \in Slots : slot'[r].status = slot[r].status /\ (r # s => slot'[r] = slot[r])
    BY <1>1 DEF Link, SlotRec
  <2> QED BY <2>1, <2>2 DEF FreeHasNoLinks, InUse, LInv
<1>6. RefsOfUsers'
  BY DEF Link, LInv, RefsOfUsers
<1>4. CASE slot[s].reg # NoLinks
  <2>1. regRefs' = regRefs /\ slot' = slot
    BY <1>4 DEF Link
  <2> QED BY <1>1, <1>3, <1>6, <2>1, SameLinks DEF LInv
<1>5. CASE slot[s].reg = NoLinks
  <2>1. /\ slot' = [slot EXCEPT ![s].reg = new]
        /\ regRefs' = [u \in Users |-> regRefs[u] + Cardinality(D(u))]
    BY <1>5 DEF Link
  <2> HIDE DEF new
  <2>2. \A r \in Slots : slot'[r].reg = IF r = s THEN new ELSE slot[r].reg
    BY <1>1, <2>1 DEF SlotRec
  <2>3. ASSUME NEW u \in Users
        PROVE  /\ regRefs'[u] = Cardinality(LinksTo(u)')
               /\ regRefs'[u] > 0 => u \in registry
               /\ regRefs'[u] = regRefs[u] \/ u \in registry
    <3>1. LinksTo(u)' = LinksTo(u) \cup ({s} \X D(u)) /\ LinksTo(u) \cap ({s} \X D(u)) = {}
      <4>1. \A d \in Sides : slot[s].reg[d] # u
        BY <1>5 DEF NoLinks
      <4> QED BY <2>2, <4>1 DEF LinksTo
    <3>2. /\ IsFiniteSet({s} \X D(u)) /\ Cardinality({s} \X D(u)) = Cardinality(D(u))
          /\ Cardinality(D(u)) \in Nat
      BY SlotLinks
    <3>3. Cardinality(LinksTo(u)') = Cardinality(LinksTo(u)) + Cardinality(D(u))
      <4> DEFINE A == LinksTo(u)  B == {s} \X D(u)  C == LinksTo(u)'
      <4>1. IsFiniteSet(A) /\ IsFiniteSet(B) /\ A \cap B = {} /\ C = A \cup B
        BY <3>1, <3>2, LinksFinite
      <4> HIDE DEF A, B, C
      <4>2. Cardinality(C) = Cardinality(A) + Cardinality(B)
        BY <4>1, CountAdded
      <4> QED BY <3>2, <4>2 DEF A, B, C
    <3>4. regRefs[u] = Cardinality(LinksTo(u)) /\ (regRefs[u] > 0 => u \in registry)
      BY DEF LInv, LinksCounted, LinksTo
    <3>5. regRefs'[u] = regRefs[u] + Cardinality(D(u))
      BY <2>1
    <3>6. Cardinality(D(u)) # 0 => u \in registry
      <4>1. u \notin registry => D(u) = {}
        BY <1>2
      <4> QED BY <4>1, FS_EmptySet
    <3> QED BY <3>2, <3>3, <3>4, <3>5, <3>6, LinksFinite
  <2> QED BY <1>1, <1>3, <1>6, <2>3 DEF LInv, LinksCounted, LinksTo
<1> QED BY <1>4, <1>5

\* The slot of a call is freed: each of its links is given back.
LEMMA DeleteLinks ==
  ASSUME TableInv, LInv, NEW s \in Slots, Delete(s)
  PROVE  LInv' /\ \A u \in Users : regRefs'[u] = regRefs[u] \/ u \in registry
<1> DEFINE D(u) == {d \in Sides : slot[s].reg[d] = u}
<1>1. slot \in [Slots -> SlotRec] /\ registry' = registry
  BY DEF TableInv, TableOK, Delete
<1>4. RefsOfUsers'
  BY DEF Delete, LInv, RefsOfUsers
<1>2. CASE slot[s].refs > 0
  <2>1. regRefs' = regRefs /\ slot' = [slot EXCEPT ![s].status = "STOP"]
    BY <1>1, <1>2 DEF Delete, SlotRec
  <2>2. \A r \in Slots : slot'[r].reg = slot[r].reg /\ (r # s => slot'[r] = slot[r])
    BY <1>1, <2>1 DEF SlotRec
  <2>3. slot'[s].status = "STOP"
    BY <1>1, <2>1 DEF SlotRec
  <2> QED BY <1>1, <1>4, <2>1, <2>2, <2>3, SameLinks DEF LInv, FreeHasNoLinks, InUse
<1>3. CASE ~ (slot[s].refs > 0)
  <2>1. /\ slot' = [slot EXCEPT ![s] = FreeSlot]
        /\ regRefs' = [u \in Users |-> regRefs[u] - Cardinality(D(u))]
    BY <1>1, <1>3 DEF Delete
  <2>2. \A r \in Slots : slot'[r] = IF r = s THEN FreeSlot ELSE slot[r]
    BY <1>1, <2>1
  <2>3. FreeSlot.reg = NoLinks
    BY DEF FreeSlot
  <2>4. ASSUME NEW u \in Users
        PROVE  /\ regRefs'[u] = Cardinality(LinksTo(u)')
               /\ regRefs'[u] > 0 => u \in registry
               /\ regRefs'[u] = regRefs[u] \/ u \in registry
    <3>1. LinksTo(u)' = LinksTo(u) \ ({s} \X D(u))
          /\ LinksTo(u) \cap ({s} \X D(u)) = {s} \X D(u)
      <4>1. \A d \in Sides : FreeSlot.reg[d] # u
        BY <2>3 DEF NoLinks
      <4> QED BY <2>2, <4>1 DEF LinksTo
    <3>2. /\ IsFiniteSet({s} \X D(u)) /\ Cardinality({s} \X D(u)) = Cardinality(D(u))
          /\ Cardinality(D(u)) \in Nat
      BY SlotLinks
    <3>3. /\ Cardinality(LinksTo(u)') = Cardinality(LinksTo(u)) - Cardinality(D(u))
          /\ Cardinality(LinksTo(u)') \in Nat
      <4> DEFINE A == LinksTo(u)  B == {s} \X D(u)  C == LinksTo(u)'
      <4>1. IsFiniteSet(A) /\ A \cap B = B /\ C = A \ B
        BY <3>1, LinksFinite
      <4> HIDE DEF A, B, C
      <4>2. Cardinality(C) = Cardinality(A) - Cardinality(B) /\ Cardinality(C) \in Nat
        BY <4>1, CountTaken, FS_CardinalityType
      <4> QED BY <3>2, <4>2 DEF A, B, C
    <3>4. regRefs[u] = Cardinality(LinksTo(u)) /\ (regRefs[u] > 0 => u \in registry)
      BY DEF LInv, LinksCounted, LinksTo
    <3>5. regRefs'[u] = regRefs[u] - Cardinality(D(u))
      BY <2>1
    <3> QED BY <3>2, <3>3, <3>4, <3>5, LinksFinite
  <2>5. FreeHasNoLinks'
    BY <2>2, <2>3 DEF LInv, FreeHasNoLinks, InUse
  <2> QED BY <1>1, <1>4, <2>4, <2>5 DEF LInv, LinksCounted, LinksTo
<1> QED BY <1>2, <1>3

LEMMA InitLInv == Init => LInv
<1> SUFFICES ASSUME Init PROVE LInv
  OBVIOUS
<1>1. \A s \in Slots : slot[s].reg = NoLinks
  BY DEF Init, FreeSlot
<1>2. \A u \in Users : LinksTo(u) = {}
  BY <1>1 DEF LinksTo, NoLinks
<1>3. \A u \in Users : regRefs[u] = 0
  BY DEF Init
<1>4. \A u \in Users : Cardinality(LinksTo(u)) = 0
  <2>1. Cardinality({}) = 0
    BY FS_EmptySet
  <2> QED BY <1>2, <2>1
<1>5. LinksCounted
  BY <1>3, <1>4 DEF LinksCounted, LinksTo
<1>6. RefsOfUsers
  BY DEF Init, RefsOfUsers
<1> QED BY <1>1, <1>5, <1>6 DEF LInv, FreeHasNoLinks

\* What the steps that leave the links alone do to a slot.
LEMMA KeepsLinks ==
  ASSUME TableInv, LInv, NEW s \in Slots,
         \/ Receive(s) \/ AnnounceCall(s) \/ AnnounceMedia(s) \/ CheckStopped(s) \/ Release(s)
         \/ Visit(s) \/ Look(s) \/ Pass(s) \/ Expire(s) \/ CheckDelete(s) \/ FallSilent(s)
         \/ \E t \in Threads : End(t, s)
  PROVE  LInv' /\ UNCHANGED <<registry, regRefs>>
<1>1. slot \in [Slots -> SlotRec]
  BY DEF TableInv, TableOK
<1>2. UNCHANGED <<registry, regRefs>>
  BY DEF Receive, Search, Insert, TakeInHand, AnnounceCall, AnnounceMedia, CheckStopped,
         Release, Visit, Look, Pass, Expire, CheckDelete, FallSilent, End, MarkStopped,
         AnnounceEndOfSession, AnnounceEndOfCall, tableVars
<1> DEFINE Kept == \A r \in Slots : /\ slot'[r].reg = slot[r].reg
                                    /\ slot[r].status # "NONE" => slot'[r].status # "NONE"
<1>3. Kept
  <2>1. ASSUME NEW m \in Messages, Search(s, m) PROVE Kept
    <3>1. StatusAfter(slot[s], m.kind) # "NONE"
      BY <2>1 DEF Search, StatusAfter, InUse
    <3>2. slot' = [slot EXCEPT ![s] = Touched(@, m)]
      BY <2>1 DEF Search
    <3>3. /\ Touched(slot[s], m).status = StatusAfter(slot[s], m.kind)
          /\ Touched(slot[s], m).reg = slot[s].reg
      BY <1>1 DEF Touched, SlotRec
    <3> QED BY <1>1, <3>1, <3>2, <3>3
  <2>2. ASSUME NEW m \in Messages, Insert(s, m) PROVE Kept
    BY <1>1, <2>2 DEF Insert, NewSlot, FreeSlot, LInv, FreeHasNoLinks, InUse
  <2>3. CASE UNCHANGED slot
    BY <2>3
  <2>4. CASE \/ slot' = [slot EXCEPT ![s].stopped = TRUE] \/ slot' = [slot EXCEPT ![s].started = TRUE]
             \/ slot' = [slot EXCEPT ![s].stale = TRUE]  \/ slot' = [slot EXCEPT ![s].status = "STOP"]
             \/ slot' = [slot EXCEPT ![s].refs = @ - 1]
    <3>1. CASE slot' = [slot EXCEPT ![s].stopped = TRUE]
      BY <1>1, <3>1 DEF SlotRec
    <3>2. CASE slot' = [slot EXCEPT ![s].started = TRUE]
      BY <1>1, <3>2 DEF SlotRec
    <3>3. CASE slot' = [slot EXCEPT ![s].stale = TRUE]
      BY <1>1, <3>3 DEF SlotRec
    <3>4. CASE slot' = [slot EXCEPT ![s].status = "STOP"]
      BY <1>1, <3>4 DEF SlotRec
    <3>5. CASE slot' = [slot EXCEPT ![s].refs = @ - 1]
      BY <1>1, <3>5 DEF SlotRec
    <3> QED BY <2>4, <3>1, <3>2, <3>3, <3>4, <3>5
  <2>5. CASE slot' = [slot EXCEPT ![s].old[slot[s].recv] = slot[s].rtp[slot[s].recv]]
    BY <1>1, <2>5 DEF SlotRec
  <2>6. AnnounceCall(s) => slot' = [slot EXCEPT ![s].started = TRUE] \/ UNCHANGED slot
    BY DEF AnnounceCall
  <2>7. AnnounceMedia(s) =>
          \/ slot' = [slot EXCEPT ![s].old[slot[s].recv] = slot[s].rtp[slot[s].recv]]
          \/ UNCHANGED slot
    BY DEF AnnounceMedia
  <2>8. ASSUME NEW t \in Threads, End(t, s)
        PROVE  slot' = [slot EXCEPT ![s].stopped = TRUE] \/ UNCHANGED slot
    BY <2>8 DEF End, MarkStopped, AnnounceEndOfSession, AnnounceEndOfCall, tableVars
  <2>9. CheckStopped(s) \/ Visit(s) \/ Look(s) \/ Pass(s) \/ CheckDelete(s) => UNCHANGED slot
    BY DEF CheckStopped, Visit, Look, Pass, CheckDelete, tableVars
  <2>10. Release(s) => slot' = [slot EXCEPT ![s].refs = @ - 1]
    BY DEF Release
  <2>11. Expire(s) => slot' = [slot EXCEPT ![s].status = "STOP"]
    BY DEF Expire
  <2>12. FallSilent(s) => slot' = [slot EXCEPT ![s].stale = TRUE]
    BY DEF FallSilent
  <2> HIDE DEF Kept
  <2> QED BY <2>1, <2>2, <2>3, <2>4, <2>5, <2>6, <2>7, <2>8, <2>9, <2>10, <2>11, <2>12 DEF Receive
<1>5. LinksCounted'
  BY <1>2, <1>3, SameLinks DEF Kept
<1>6. FreeHasNoLinks'
  BY <1>3 DEF Kept, LInv, FreeHasNoLinks, InUse
<1> QED BY <1>2, <1>5, <1>6 DEF LInv, RefsOfUsers

\* An entry comes, or goes when no link leads to it.
LEMMA ComeAndGo ==
  ASSUME LInv, NEW u \in Users, Enter(u) \/ Leave(u)
  PROVE  LInv' /\ UNCHANGED <<slot, regRefs>>
<1>1. UNCHANGED <<slot, regRefs>>
  BY DEF Enter, Leave
<1>2. FreeHasNoLinks'
  BY <1>1 DEF LInv, FreeHasNoLinks, InUse
<1>3. \A v \in Users : regRefs[v] > 0 => v \in registry'
  <2>1. \A v \in Users : regRefs[v] > 0 => v \in registry
    BY DEF LInv, LinksCounted
  <2> QED BY <2>1 DEF Enter, Leave
<1>4. LinksCounted'
  BY <1>1, <1>3 DEF LInv, LinksCounted
<1> QED BY <1>1, <1>2, <1>4 DEF LInv, RefsOfUsers

LEMMA StepLInv ==
  ASSUME TableInv, LInv, [Next]_vars
  PROVE  /\ LInv'
         /\ \/ UNCHANGED <<registry, regRefs>>
            \/ registry' = registry /\ \A u \in Users : regRefs'[u] = regRefs[u] \/ u \in registry
            \/ regRefs' = regRefs /\ \E u \in Users : Enter(u) \/ Leave(u)
<1>1. CASE UNCHANGED vars
  BY <1>1 DEF vars, LInv, FreeHasNoLinks, RefsOfUsers, LinksCounted, InUse
<1>2. ASSUME NEW s \in Slots, NEW from \in Users \cup {NoUser}, NEW to \in Users \cup {NoUser},
             Link(s, from, to)
      PROVE  LInv' /\ registry' = registry
             /\ \A u \in Users : regRefs'[u] = regRefs[u] \/ u \in registry
  BY <1>2, LinkLinks DEF Link
<1>3. ASSUME NEW s \in Slots, Delete(s)
      PROVE  LInv' /\ registry' = registry
             /\ \A u \in Users : regRefs'[u] = regRefs[u] \/ u \in registry
  BY <1>3, DeleteLinks DEF Delete
<1>4. ASSUME NEW s \in Slots,
         \/ Receive(s) \/ AnnounceCall(s) \/ AnnounceMedia(s) \/ CheckStopped(s) \/ Release(s)
         \/ Visit(s) \/ Look(s) \/ Pass(s) \/ Expire(s) \/ CheckDelete(s) \/ FallSilent(s)
         \/ \E t \in Threads : End(t, s)
      PROVE  LInv' /\ UNCHANGED <<registry, regRefs>>
  BY <1>4, KeepsLinks
<1>5. ASSUME NEW u \in Users, Enter(u) \/ Leave(u)
      PROVE  LInv' /\ regRefs' = regRefs
  BY <1>5, ComeAndGo
<1> QED BY <1>1, <1>2, <1>3, <1>4, <1>5 DEF Next, Work, Reglament, Environment

LEMMA AlwaysLInv == Spec => []LInv
<1>1. TableInv /\ LInv /\ [Next]_vars => LInv'
  BY StepLInv
<1> QED BY <1>1, InitLInv, AlwaysTableInv, PTL DEF Spec

\* The pointers puser_registry0 and 1 never dangle: an entry that a call links
\* to is in the registry, with a use count of as many as there are links.
THEOREM LinksStayCounted == Spec => []LinksCounted
<1>1. LInv => LinksCounted
  BY DEF LInv
<1> QED BY <1>1, AlwaysLInv, PTL

\* The calls use the registry as PhoneBook allows.
THEOREM SessionsImplementBook == Spec => ImplementsBook
<1>1. Init => Book!Init
  BY DEF Init, Book!Init
<1>2. TableInv /\ TableInv' /\ LInv /\ LInv' /\ [Next]_vars => [Book!Next]_(Book!vars)
  <2> SUFFICES ASSUME TableInv, TableInv', LInv, LInv', [Next]_vars,
                      ~ UNCHANGED <<registry, regRefs>>
               PROVE  Book!Next
    BY DEF Book!vars
  <2>1. registry' \subseteq Users /\ regRefs' \in [Users -> Nat]
    BY RefsNatNext DEF TableInv, TableOK
  <2>2. \A u \in Users : regRefs[u] > 0 => u \in registry
    BY DEF LInv, LinksCounted
  <2>3. CASE registry' = registry /\ \A u \in Users : regRefs'[u] = regRefs[u] \/ u \in registry
    <3>1. \A u \in Users : Book!Unchanged(u) \/ Book!Use(u)
      BY <2>3 DEF Book!Unchanged, Book!Use
    <3> QED BY <2>1, <3>1 DEF Book!Next
  <2>4. ASSUME regRefs' = regRefs, NEW u \in Users, Enter(u)
        PROVE  Book!Next
    <3>1. regRefs[u] = 0
      BY <2>2, <2>4, RefsNat DEF Enter
    <3>2. Book!Appear(u)
      BY <2>4, <3>1 DEF Enter, Book!Appear
    <3>3. \A v \in Users : v # u => Book!Unchanged(v)
      BY <2>4 DEF Enter, Book!Unchanged
    <3> QED BY <2>1, <3>2, <3>3 DEF Book!Next
  <2>5. ASSUME regRefs' = regRefs, NEW u \in Users, Leave(u)
        PROVE  Book!Next
    <3>1. Book!Vanish(u)
      BY <2>5 DEF Leave, Book!Vanish
    <3>2. \A v \in Users : v # u => Book!Unchanged(v)
      BY <2>5 DEF Leave, Book!Unchanged
    <3> QED BY <2>1, <3>1, <3>2 DEF Book!Next
  <2> QED BY <2>3, <2>4, <2>5, StepLInv
<1> QED BY <1>1, <1>2, AlwaysTableInv, AlwaysLInv, PTL DEF Spec, ImplementsBook, Book!Spec
=============================================================================
