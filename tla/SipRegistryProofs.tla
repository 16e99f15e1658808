-------------------------- MODULE SipRegistryProofs --------------------------
(***************************************************************************)
(* Proofs of the safety properties of SipRegistry, for any number of slots *)
(* and phones and any messages.                                            *)
(***************************************************************************)
EXTENDS SipRegistry, TLAPS

\* What the places of the two threads say: a thread in the middle of its work
\* has a slot, the entry the capture thread has found is in the table, and the
\* one it inserts is not there yet and nobody's.
Working ==
  /\ \A t \in Threads : Idle(t) <=> at[t] = NoSlot
  /\ Idle("cap") <=> msg = NoMsg
  /\ pc["cap"] \in {"touch", "report", "release"} =>
       msg.user \in DOMAIN table /\ table[msg.user] = at["cap"]
  /\ pc["cap"] \in {"status", "count"} =>
       /\ msg.user \notin DOMAIN table /\ at["cap"] \notin pool
       /\ entry[at["cap"]].user = msg.user /\ links[at["cap"]] = 0

IInv == TypeOK /\ RefsExact /\ TableSound /\ Working

\* A step of the table, as those see it who link calls to phones.
BookStep == [Book!Next]_(Book!vars)

LEMMA InitIInv == Init => IInv
<1> SUFFICES ASSUME Init PROVE IInv
  OBVIOUS
<1> USE RegistryAssumption DEF Init
<1>1. FreeEntry \in EntryRec
  BY DEF FreeEntry, EntryRec, Status
<1>2. TypeOK
  BY <1>1 DEF TypeOK, Threads, CapPlaces, RglPlaces
<1>3. RefsExact
  BY DEF RefsExact, Holds, FreeEntry, Threads
<1>4. TableSound
  BY DEF TableSound, FreeEntry
<1>5. Working
  BY DEF Working, Idle, Threads
<1> QED BY <1>2, <1>3, <1>4, <1>5 DEF IInv

\* What no step of the reglament thread on its own changes.
LEMMA RglMoves ==
  ASSUME IInv, NEW s \in Slots,
         UNCHANGED <<pool, table, links, msg, left>>,
         pc' = [pc EXCEPT !["rgl"] = pc'["rgl"]], pc'["rgl"] \in RglPlaces,
         at' = [at EXCEPT !["rgl"] = at'["rgl"]], at'["rgl"] \in Slots \cup {NoSlot},
         Idle("rgl")' <=> at'["rgl"] = NoSlot,
         entry' = entry \/ entry' = [entry EXCEPT ![s].status = "END_EXPIRY"],
         key' \in Users \cup {NoUser, Junk},
         terminal' \in [Users -> {"none", "made", "stuck"}]
  PROVE  IInv'
<1> USE RegistryAssumption
<1>1. pc'["cap"] = pc["cap"] /\ at'["cap"] = at["cap"]
  BY DEF IInv, TypeOK, Threads
<1>2. \A r \in Slots : entry'[r].user = entry[r].user /\ entry'[r].refs = entry[r].refs
  BY DEF IInv, TypeOK, EntryRec
<1>3. TypeOK'
  <2>1. entry \in [Slots -> EntryRec]
    BY DEF IInv, TypeOK
  <2>2. [entry[s] EXCEPT !.status = "END_EXPIRY"] \in EntryRec
    BY <2>1 DEF EntryRec, Status
  <2>3. entry' \in [Slots -> EntryRec]
    BY <2>1, <2>2
  <2> QED BY <1>1, <2>3 DEF IInv, TypeOK, Threads
<1>4. RefsExact'
  BY <1>1, <1>2 DEF IInv, RefsExact, Holds
<1>5. TableSound'
  BY <1>1, <1>2 DEF IInv, TableSound, TypeOK
<1>6. Working'
  BY <1>1, <1>2 DEF IInv, Working, TypeOK, Idle, Threads
<1> QED BY <1>3, <1>4, <1>5, <1>6 DEF IInv

\* The same for the callbacks, which only touch what the listener knows.
LEMMA Callbacks ==
  ASSUME IInv, NEW e \in EntryRec,
         CbOnRegister(e) \/ CbOnEndRegister(e) \/ UNCHANGED terminal
  PROVE  terminal' \in [Users -> {"none", "made", "stuck"}]
<1> USE RegistryAssumption DEF IInv, TypeOK, EntryRec
<1>1. CASE CbOnRegister(e)
  BY <1>1 DEF CbOnRegister
<1>2. CASE CbOnEndRegister(e)
  BY <1>2 DEF CbOnEndRegister
<1> QED BY <1>1, <1>2

LEMMA ReglamentIInv ==
  ASSUME IInv, NEW s \in Slots,
         \/ Visit(s) \/ Look(s) \/ Pass(s) \/ Test(s) \/ Expire(s) \/ Done(s)
         \/ \E n \in Round : TellEnd(s, n) \/ ReadKey(s, n)
  PROVE  IInv' /\ UNCHANGED <<table, links>>
<1> USE RegistryAssumption DEF Goto, Leave, Start, Idle, tableVars, RglPlaces
<1>1. entry[s] \in EntryRec /\ pc \in [Threads -> CapPlaces \cup RglPlaces]
      /\ at \in [Threads -> Slots \cup {NoSlot}] /\ entry[s].user \in Users \cup {NoUser}
      /\ key \in Users \cup {NoUser, Junk} /\ pc["rgl"] \in RglPlaces
      /\ terminal \in [Users -> {"none", "made", "stuck"}] /\ "rgl" \in Threads
  BY DEF IInv, TypeOK, EntryRec, Threads
<1>2. CASE Visit(s)
  BY <1>1, <1>2, RglMoves DEF Visit
<1>3. CASE Look(s)
  BY <1>1, <1>3, RglMoves DEF Look
<1>4. CASE Pass(s)
  BY <1>1, <1>4, RglMoves DEF Pass
<1>5. CASE Test(s)
  BY <1>1, <1>5, RglMoves DEF Test
<1>6. CASE Expire(s)
  BY <1>1, <1>6, RglMoves DEF Expire
<1>7. CASE Done(s)
  BY <1>1, <1>7, RglMoves DEF Done
<1>8. ASSUME NEW n \in Round, TellEnd(s, n)
      PROVE  IInv' /\ UNCHANGED <<table, links>>
  <2>1. terminal' \in [Users -> {"none", "made", "stuck"}]
    BY <1>1, <1>8, Callbacks DEF TellEnd
  <2>2. Read(n) \in RglPlaces \ {"idle"}
    BY DEF Read
  <2> QED BY <1>1, <1>8, <2>1, <2>2, RglMoves DEF TellEnd
<1>9. ASSUME NEW n \in Round, ReadKey(s, n)
      PROVE  IInv' /\ UNCHANGED <<table, links>>
  <2>1. After(n) \in RglPlaces \ {"idle"} /\ Remove(n) \in RglPlaces \ {"idle"}
    BY DEF After, Remove
  <2> QED BY <1>1, <1>9, <2>1, RglMoves DEF ReadKey
<1> QED BY <1>2, <1>3, <1>4, <1>5, <1>6, <1>7, <1>8, <1>9

\* Only an entry that no call is linked to and the capture thread does not work
\* on leaves the table, whatever name the key is read as.
LEMMA DeleteIInv ==
  ASSUME IInv, NEW s \in Slots, NEW n \in Round, Delete(s, n)
  PROVE  IInv' /\ BookStep
<1> USE RegistryAssumption
<1>1. /\ pc' = [pc EXCEPT !["rgl"] = After(n)] /\ UNCHANGED <<at, links, msg, terminal, left>>
      /\ key' = NoUser /\ at["rgl"] = s /\ s # NoSlot /\ After(n) \in RglPlaces \ {"idle"}
      /\ pc["cap"] \notin {"touch", "status", "count"}
  BY DEF Delete, Goto, After, RglPlaces, Locked
<1>2. CASE UNCHANGED <<entry, pool, table>>
  <2>1. IInv'
    BY <1>1, <1>2, RglMoves DEF IInv, TypeOK, Idle, Threads, RglPlaces
  <2>2. BookStep
    BY <1>1, <1>2 DEF BookStep, Book!vars, Links
  <2> QED BY <2>1, <2>2
<1>3. ASSUME NEW u \in DOMAIN table, entry[table[u]].refs = 0,
             entry' = [entry EXCEPT ![table[u]] = FreeEntry],
             pool' = pool \cup {table[u]},
             table' = Restrict(table, DOMAIN table \ {u})
      PROVE  IInv' /\ BookStep
  <2> DEFINE r == table[u]
  <2>1. r \in Slots /\ u \in Users /\ entry[r].user = u
    BY DEF IInv, TypeOK, TableSound
  <2>2. links[r] = 0 /\ ~ Holds(r)
    BY <1>3, <2>1 DEF IInv, RefsExact, TypeOK
  <2>3. FreeEntry \in EntryRec
    BY DEF FreeEntry, EntryRec, Status
  <2>4. \A q \in Slots : entry'[q] = IF q = r THEN FreeEntry ELSE entry[q]
    BY <1>3, <2>1 DEF IInv, TypeOK
  <2>5. /\ DOMAIN table' = DOMAIN table \ {u}
        /\ \A v \in DOMAIN table' : table'[v] = table[v] /\ table[v] # r
    BY <1>3, <2>1 DEF Restrict, IInv, TableSound
  <2>6. pc'["cap"] = pc["cap"] /\ pc'["rgl"] = After(n) /\ at' = at
    BY <1>1 DEF IInv, TypeOK, Threads
  <2>7. TypeOK'
    <3>1. entry' \in [Slots -> EntryRec] /\ pool' \subseteq Slots
      BY <1>3, <2>1, <2>3 DEF IInv, TypeOK
    <3>2. DOMAIN table' \subseteq Users /\ table' \in [DOMAIN table' -> Slots]
      BY <1>3, <2>1 DEF IInv, TypeOK, Restrict
    <3> QED BY <1>1, <2>6, <3>1, <3>2 DEF IInv, TypeOK, Threads
  <2>8. RefsExact'
    BY <1>1, <2>2, <2>4, <2>6 DEF IInv, RefsExact, Holds, FreeEntry
  <2>9. TableSound'
    <3>1. \A v \in DOMAIN table' : entry'[table'[v]].user = v
      BY <2>4, <2>5 DEF IInv, TableSound, TypeOK
    <3>2. \A q \in Slots : \/ q \in pool' /\ entry'[q].user = NoUser /\ links'[q] = 0
                           \/ q \notin pool' /\ entry'[q].user # NoUser
      BY <1>1, <1>3, <2>1, <2>2, <2>4 DEF IInv, TableSound, FreeEntry
    <3>3. ASSUME NEW q \in Slots \ pool'
          PROVE  entry'[q].user \in DOMAIN table' /\ table'[entry'[q].user] = q
      <4>1. q \in Slots \ pool /\ q # r /\ entry'[q] = entry[q]
        BY <1>3, <2>4
      <4>2. entry[q].user \in DOMAIN table /\ table[entry[q].user] = q
        BY <1>1, <4>1 DEF IInv, TableSound
      <4> QED BY <2>5, <4>1, <4>2
    <3> QED BY <3>1, <3>2, <3>3 DEF TableSound
  <2>10. Working'
    <3>1. pc["cap"] \in {"report", "release"} => msg.user # u
      BY <2>1, <2>2 DEF IInv, Working, Holds
    <3> QED BY <1>1, <2>5, <2>6, <3>1 DEF IInv, Working, Idle, Threads, TypeOK
  <2>11. BookStep
    <3>1. \A v \in Users : Links(v)' = Links(v)
      BY <1>1, <2>2, <2>5 DEF Links
    <3>2. Links(u) = 0 /\ \A v \in Users : Links(v) \in Nat
      BY <2>2 DEF Links, IInv, TypeOK
    <3>3. \A v \in Users : Book!Unchanged(v) \/ Book!Vanish(v)
      BY <2>1, <2>5, <3>1, <3>2 DEF Book!Unchanged, Book!Vanish
    <3>4. DOMAIN table' \subseteq Users
      BY <2>7 DEF TypeOK
    <3> QED BY <3>1, <3>2, <3>3, <3>4 DEF BookStep, Book!Next
  <2> QED BY <2>7, <2>8, <2>9, <2>10, <2>11 DEF IInv
<1> QED BY <1>2, <1>3 DEF Delete

\* The steps of the capture thread that change one entry without changing whose
\* it is, and neither the table nor the pool.
LEMMA EntryChange ==
  ASSUME IInv, NEW s \in Slots, NEW e \in EntryRec,
         entry' = [entry EXCEPT ![s] = e], e.user = entry[s].user,
         UNCHANGED <<pool, table>>, links' \in [Slots -> Nat],
         \A r \in Slots : links'[r] = links[r] \/ r \notin pool,
         \/ pc'["cap"] \in {"status", "count"} /\ at'["cap"] = at["cap"]
         \/ pc["cap"] \notin {"status", "count"}
  PROVE  /\ entry' \in [Slots -> EntryRec]
         /\ \A r \in Slots : entry'[r] = IF r = s THEN e ELSE entry[r]
         /\ TableSound'
<1>1. entry' \in [Slots -> EntryRec] /\ \A r \in Slots : entry'[r] = IF r = s THEN e ELSE entry[r]
  BY DEF IInv, TypeOK
<1>2. \A r \in Slots : entry'[r].user = entry[r].user
  BY <1>1
<1>3. TableSound'
  BY <1>2 DEF IInv, TableSound, TypeOK
<1> QED BY <1>1, <1>3

\* The steps that leave table and links alone leave the book alone.
LEMMA BookSame == UNCHANGED <<table, links>> => BookStep
BY DEF BookStep, Book!vars, Links

LEMMA TouchedType ==
  ASSUME NEW e \in EntryRec, NEW m \in Messages
  PROVE  /\ Touched(e, m) \in EntryRec /\ Touched(e, m).user = e.user
         /\ Touched(e, m).refs = e.refs + 1
<1>1. StatusAfter(e.status, m.kind) \in Status
  BY DEF StatusAfter, Status, EntryRec
<1>2. e.old \in BOOLEAN /\ e.refs + 1 \in Nat
  BY DEF EntryRec
<1> DEFINE st == StatusAfter(e.status, m.kind)
           o == e.old /\ m.kind \in {"NOTIFIED", "INVITE"}
<1>3. Touched(e, m) = [[[e EXCEPT !.status = st] EXCEPT !.old = o] EXCEPT !.refs = e.refs + 1]
  BY DEF Touched, EntryRec
<1>4. o \in BOOLEAN
  OBVIOUS
<1> HIDE DEF st, o
<1> QED BY <1>1, <1>2, <1>3, <1>4 DEF EntryRec, st

LEMMA SearchIInv ==
  ASSUME IInv, NEW s \in Slots, NEW m \in Messages, Search(s, m)
  PROVE  IInv' /\ BookStep
<1> USE RegistryAssumption
<1> DEFINE e == [entry[s] EXCEPT !.typed = @ \/ m.agent]
<1>1. entry[s] \in EntryRec /\ m.user \in Users /\ m.agent \in BOOLEAN
  BY DEF IInv, TypeOK, Messages
<1>2. e \in EntryRec /\ e.user = entry[s].user /\ e.refs = entry[s].refs
  BY <1>1 DEF EntryRec
<1>3. /\ pc["cap"] = "idle" /\ pc' = [pc EXCEPT !["cap"] = "touch"] /\ at' = [at EXCEPT !["cap"] = s]
      /\ msg' = m /\ entry' = [entry EXCEPT ![s] = e] /\ left' \in 0 .. MaxMsgs
      /\ m.user \in DOMAIN table /\ table[m.user] = s
      /\ UNCHANGED <<pool, table, links, key>>
  BY DEF Search, Start, Idle, IInv, TypeOK
<1>4. /\ pc'["cap"] = "touch" /\ pc'["rgl"] = pc["rgl"] /\ at'["cap"] = s /\ at'["rgl"] = at["rgl"]
      /\ pc' \in [Threads -> CapPlaces \cup RglPlaces] /\ at' \in [Threads -> Slots \cup {NoSlot}]
  BY <1>3 DEF IInv, TypeOK, Threads, CapPlaces
<1> HIDE DEF e
<1>5. /\ entry' \in [Slots -> EntryRec]
      /\ \A r \in Slots : entry'[r] = IF r = s THEN e ELSE entry[r]
      /\ TableSound'
  <2>1. links' \in [Slots -> Nat] /\ \A r \in Slots : links'[r] = links[r] \/ r \notin pool
    BY <1>3 DEF IInv, TypeOK
  <2> QED BY <1>2, <1>3, <2>1, EntryChange
<1>6. terminal' \in [Users -> {"none", "made", "stuck"}]
  BY <1>5, Callbacks DEF Search
<1>7. TypeOK'
  BY <1>3, <1>4, <1>5, <1>6 DEF IInv, TypeOK, Threads, CapPlaces
<1>8. RefsExact'
  BY <1>2, <1>3, <1>4, <1>5 DEF IInv, RefsExact, Holds, Working, Idle, Threads
<1>9. Working'
  BY <1>3, <1>4 DEF IInv, Working, Idle, Threads, TypeOK
<1> QED BY <1>3, <1>5, <1>7, <1>8, <1>9, BookSame DEF IInv

\* What the steps of the capture thread that go on with the message in hand
\* have in common.
CapGoes(s, to) ==
  /\ pc' = [pc EXCEPT !["cap"] = to] /\ UNCHANGED at
  /\ at["cap"] = s /\ to \in CapPlaces \ {"idle"} /\ pc["cap"] # "idle"
  /\ UNCHANGED <<msg, key, left>>

CapLeaves(s) ==
  /\ pc' = [pc EXCEPT !["cap"] = "idle"] /\ at' = [at EXCEPT !["cap"] = NoSlot]
  /\ at["cap"] = s /\ pc["cap"] # "idle"
  /\ msg' = NoMsg /\ UNCHANGED left

LEMMA CapGoesOK ==
  ASSUME IInv, NEW s \in Slots, NEW to, CapGoes(s, to)
  PROVE  /\ pc'["cap"] = to /\ pc'["rgl"] = pc["rgl"] /\ pc' \in [Threads -> CapPlaces \cup RglPlaces]
         /\ pc'["cap"] \in CapPlaces /\ pc'["rgl"] \in RglPlaces /\ at' \in [Threads -> Slots \cup {NoSlot}]
         /\ msg' \in Messages \cup {NoMsg} /\ key' \in Users \cup {NoUser, Junk} /\ left' \in 0 .. MaxMsgs
         /\ msg \in Messages /\ \A t \in Threads : Idle(t)' <=> at'[t] = NoSlot
BY RegistryAssumption DEF CapGoes, IInv, TypeOK, Threads, Idle, Working

LEMMA CapLeavesOK ==
  ASSUME IInv, NEW s \in Slots, CapLeaves(s)
  PROVE  /\ pc'["cap"] = "idle" /\ pc'["rgl"] = pc["rgl"] /\ pc' \in [Threads -> CapPlaces \cup RglPlaces]
         /\ pc'["cap"] \in CapPlaces /\ pc'["rgl"] \in RglPlaces /\ at' \in [Threads -> Slots \cup {NoSlot}]
         /\ at'["cap"] = NoSlot /\ at'["rgl"] = at["rgl"]
         /\ msg' \in Messages \cup {NoMsg} /\ left' \in 0 .. MaxMsgs
         /\ msg \in Messages /\ \A t \in Threads : Idle(t)' <=> at'[t] = NoSlot
         /\ Working'
BY RegistryAssumption DEF CapLeaves, IInv, TypeOK, Threads, Idle, Working, CapPlaces

LEMMA TouchIInv ==
  ASSUME IInv, NEW s \in Slots, Touch(s) PROVE IInv' /\ BookStep
<1> USE RegistryAssumption
<1>1. /\ CapGoes(s, "release") /\ pc["cap"] = "touch" /\ entry' = [entry EXCEPT ![s] = Touched(@, msg)]
      /\ UNCHANGED <<pool, table, links, terminal>>
  BY DEF Touch, Goto, CapGoes, CapPlaces
<1>2. msg \in Messages /\ entry[s] \in EntryRec /\ entry \in [Slots -> EntryRec]
  BY <1>1, CapGoesOK DEF IInv, TypeOK
<1>3. PICK e \in EntryRec : e = Touched(entry[s], msg) /\ e.user = entry[s].user /\ e.refs = entry[s].refs + 1
  BY <1>2, TouchedType
<1>4. entry' = [entry EXCEPT ![s] = e] /\ links' \in [Slots -> Nat]
  BY <1>1, <1>2, <1>3 DEF IInv, TypeOK
<1>5. /\ entry' \in [Slots -> EntryRec]
      /\ \A r \in Slots : entry'[r] = IF r = s THEN e ELSE entry[r]
      /\ TableSound'
  BY <1>1, <1>3, <1>4, EntryChange
<1>6. TypeOK'
  BY <1>1, <1>5, CapGoesOK DEF IInv, TypeOK
<1>7. RefsExact'
  <2>1. \A r \in Slots : ~ Holds(r) /\ (Holds(r)' <=> r = s)
    BY <1>1, CapGoesOK DEF Holds, CapGoes
  <2>2. \A r \in Slots : entry[r].refs = links[r] /\ links'[r] = links[r] /\ links[r] \in Nat
    BY <1>1, <2>1 DEF IInv, RefsExact, TypeOK
  <2> QED BY <1>3, <1>5, <2>1, <2>2 DEF RefsExact
<1>8. Working'
  BY <1>1, CapGoesOK DEF IInv, Working, Idle, CapGoes
<1> QED BY <1>1, <1>5, <1>6, <1>7, <1>8, BookSame DEF IInv

LEMMA TouchAndLinkIInv ==
  ASSUME IInv, NEW s \in Slots, TouchAndLink(s) PROVE IInv' /\ BookStep
<1> USE RegistryAssumption
<1>1. /\ CapLeaves(s) /\ pc["cap"] = "touch" /\ entry' = [entry EXCEPT ![s] = Touched(@, msg)]
      /\ links' = [links EXCEPT ![s] = @ + 1] /\ UNCHANGED <<pool, table, terminal, key>>
  BY DEF TouchAndLink, Leave, CapLeaves
<1>2. msg \in Messages /\ entry[s] \in EntryRec /\ entry \in [Slots -> EntryRec]
  BY <1>1, CapLeavesOK DEF IInv, TypeOK
<1>3. PICK e \in EntryRec : e = Touched(entry[s], msg) /\ e.user = entry[s].user /\ e.refs = entry[s].refs + 1
  BY <1>2, TouchedType
<1>4. /\ entry' = [entry EXCEPT ![s] = e] /\ links' \in [Slots -> Nat]
      /\ \A r \in Slots : links'[r] = IF r = s THEN links[r] + 1 ELSE links[r]
  BY <1>1, <1>2, <1>3 DEF IInv, TypeOK
<1>5. msg.user \in DOMAIN table /\ table[msg.user] = s /\ s \notin pool /\ msg.user \in Users
  BY <1>1 DEF IInv, Working, CapLeaves, TableSound, TypeOK
<1>6. /\ entry' \in [Slots -> EntryRec]
      /\ \A r \in Slots : entry'[r] = IF r = s THEN e ELSE entry[r]
      /\ TableSound'
  <2>1. \A r \in Slots : links'[r] = links[r] \/ r \notin pool
    BY <1>4, <1>5
  <2> QED BY <1>1, <1>3, <1>4, <2>1, EntryChange
<1>7. TypeOK'
  BY <1>1, <1>4, <1>6, CapLeavesOK DEF IInv, TypeOK
<1>8. RefsExact'
  BY <1>1, <1>3, <1>4, <1>6, CapLeavesOK DEF IInv, RefsExact, Holds, TypeOK, EntryRec
<1>9. BookStep
  <2>1. \A u \in Users : Links(u)' = Links(u) \/ (u \in DOMAIN table /\ u \in DOMAIN table')
    BY <1>1, <1>4 DEF Links
  <2>2. \A u \in Users : Links(u)' \in Nat
    BY <1>1, <1>4 DEF Links, IInv, TypeOK
  <2>3. \A u \in Users : Book!Unchanged(u) \/ Book!Use(u)
    BY <1>1, <2>1 DEF Book!Unchanged, Book!Use
  <2>4. DOMAIN table' \subseteq Users
    BY <1>1 DEF IInv, TypeOK
  <2> QED BY <2>2, <2>3, <2>4 DEF BookStep, Book!Next
<1> QED BY <1>1, <1>6, <1>7, <1>8, <1>9, CapLeavesOK DEF IInv

LEMMA InsertNameIInv ==
  ASSUME IInv, NEW s \in Slots, NEW m \in Messages, InsertName(s, m)
  PROVE  IInv' /\ BookStep
<1> USE RegistryAssumption
<1> DEFINE e == [user |-> m.user, status |-> "ERROR", typed |-> m.agent, old |-> FALSE, refs |-> 0]
<1>1. e \in EntryRec /\ e.user \in Users /\ e.user = m.user /\ e.refs = 0
  BY DEF EntryRec, Status, Messages
<1>2. entry' = [entry EXCEPT ![s] = e]
  BY DEF InsertName, NewEntry
<1> HIDE DEF e
<1>3. /\ pc["cap"] = "idle" /\ pc' = [pc EXCEPT !["cap"] = "status"] /\ at' = [at EXCEPT !["cap"] = s]
      /\ msg' = m /\ left' \in 0 .. MaxMsgs /\ m.user \notin DOMAIN table
      /\ s \in pool /\ pool' = pool \ {s} /\ UNCHANGED <<table, links, key, terminal>>
  BY DEF InsertName, Start, Idle, IInv, TypeOK
<1>4. /\ pc'["cap"] = "status" /\ pc'["rgl"] = pc["rgl"] /\ at'["cap"] = s /\ at'["rgl"] = at["rgl"]
      /\ pc' \in [Threads -> CapPlaces \cup RglPlaces] /\ at' \in [Threads -> Slots \cup {NoSlot}]
  BY <1>3 DEF IInv, TypeOK, Threads, CapPlaces
<1>5. /\ entry' \in [Slots -> EntryRec]
      /\ \A r \in Slots : entry'[r] = IF r = s THEN e ELSE entry[r]
  BY <1>1, <1>2 DEF IInv, TypeOK
<1>6. links[s] = 0 /\ \A u \in DOMAIN table : table[u] # s
  BY <1>3 DEF IInv, TableSound, TypeOK
<1>7. TypeOK'
  BY <1>3, <1>4, <1>5 DEF IInv, TypeOK, Threads, CapPlaces
<1>8. RefsExact'
  <2>1. \A r \in Slots : ~ Holds(r) /\ ~ Holds(r)'
    BY <1>3, <1>4 DEF Holds
  <2> QED BY <1>1, <1>3, <1>5, <1>6, <2>1 DEF IInv, RefsExact
<1>9. TableSound'
  <2>1. \A u \in DOMAIN table' : entry'[table'[u]].user = u
    BY <1>3, <1>5, <1>6 DEF IInv, TableSound, TypeOK
  <2>2. \A r \in Slots : \/ r \in pool' /\ entry'[r].user = NoUser /\ links'[r] = 0
                         \/ r \notin pool' /\ entry'[r].user # NoUser
    BY <1>1, <1>3, <1>5 DEF IInv, TableSound
  <2>3. \A r \in Slots \ pool' :
          \/ entry'[r].user \in DOMAIN table' /\ table'[entry'[r].user] = r
          \/ pc'["cap"] \in {"status", "count"} /\ at'["cap"] = r
    BY <1>3, <1>4, <1>5 DEF IInv, TableSound
  <2> QED BY <2>1, <2>2, <2>3 DEF TableSound
<1>10. Working'
  BY <1>1, <1>3, <1>4, <1>5, <1>6 DEF IInv, Working, Idle, Threads, TypeOK
<1> QED BY <1>3, <1>7, <1>8, <1>9, <1>10, BookSame DEF IInv

LEMMA InsertStatusIInv ==
  ASSUME IInv, NEW s \in Slots, InsertStatus(s) PROVE IInv' /\ BookStep
<1> USE RegistryAssumption
<1> DEFINE st == StatusAfter("NOTIFY", IF msg.kind = "REGISTER" THEN "NOTIFIED" ELSE msg.kind)
           e == [entry[s] EXCEPT !.status = st]
<1>1. st \in Status
  BY DEF StatusAfter, Status
<1>2. /\ CapGoes(s, "count") /\ pc["cap"] = "status" /\ entry' = [entry EXCEPT ![s] = e]
      /\ UNCHANGED <<pool, table, links, terminal>>
  BY DEF InsertStatus, Goto, CapGoes, CapPlaces
<1> HIDE DEF st
<1>3. e \in EntryRec /\ e.user = entry[s].user /\ e.refs = entry[s].refs
  <2>1. entry[s] \in EntryRec
    BY DEF IInv, TypeOK
  <2> QED BY <1>1, <2>1 DEF EntryRec
<1> HIDE DEF e
<1>4. /\ entry' \in [Slots -> EntryRec]
      /\ \A r \in Slots : entry'[r] = IF r = s THEN e ELSE entry[r]
  BY <1>2, <1>3 DEF IInv, TypeOK
<1>5. \A r \in Slots : entry'[r].user = entry[r].user /\ entry'[r].refs = entry[r].refs
  BY <1>3, <1>4
<1>6. TypeOK'
  BY <1>2, <1>4, CapGoesOK DEF IInv, TypeOK
<1>7. RefsExact'
  BY <1>2, <1>5, CapGoesOK DEF IInv, RefsExact, Holds
<1>8. TableSound'
  BY <1>2, <1>5, CapGoesOK DEF IInv, TableSound, TypeOK, CapGoes
<1>9. Working'
  BY <1>2, <1>5, CapGoesOK DEF IInv, Working, CapGoes, Idle
<1> QED BY <1>2, <1>6, <1>7, <1>8, <1>9, BookSame DEF IInv

\* The new entry enters the table, used by no call yet.
LEMMA InsertCountIInv ==
  ASSUME IInv, NEW s \in Slots, InsertCount(s) PROVE IInv' /\ BookStep
<1> USE RegistryAssumption
<1> DEFINE e == [entry[s] EXCEPT !.refs = @ + 1]
<1>1. /\ CapGoes(s, "report") /\ pc["cap"] = "count" /\ entry' = [entry EXCEPT ![s] = e]
      /\ table' = [u \in DOMAIN table \cup {msg.user} |-> IF u = msg.user THEN s ELSE table[u]]
      /\ UNCHANGED <<pool, links, terminal>>
  BY DEF InsertCount, Goto, CapGoes, CapPlaces
<1>2. /\ msg \in Messages /\ msg.user \in Users /\ msg.user \notin DOMAIN table /\ s \notin pool
      /\ entry[s].user = msg.user /\ links[s] = 0
  BY <1>1, CapGoesOK DEF IInv, Working, CapGoes, Messages
<1>3. e \in EntryRec /\ e.user = entry[s].user /\ e.refs = entry[s].refs + 1
  <2>1. entry[s] \in EntryRec
    BY DEF IInv, TypeOK
  <2> QED BY <2>1 DEF EntryRec
<1> HIDE DEF e
<1>4. /\ entry' \in [Slots -> EntryRec]
      /\ \A r \in Slots : entry'[r] = IF r = s THEN e ELSE entry[r]
      /\ \A r \in Slots : entry'[r].user = entry[r].user
  BY <1>1, <1>3 DEF IInv, TypeOK
<1>5. /\ DOMAIN table' = DOMAIN table \cup {msg.user} /\ table'[msg.user] = s
      /\ \A u \in DOMAIN table : table'[u] = table[u]
      /\ table' \in [DOMAIN table' -> Slots]
  BY <1>1, <1>2 DEF IInv, TypeOK
<1>6. TypeOK'
  BY <1>1, <1>2, <1>4, <1>5, CapGoesOK DEF IInv, TypeOK
<1>7. RefsExact'
  <2>1. \A r \in Slots : ~ Holds(r) /\ (Holds(r)' <=> r = s)
    BY <1>1, CapGoesOK DEF Holds, CapGoes
  <2>2. \A r \in Slots : entry[r].refs = links[r] /\ links'[r] = links[r] /\ links[r] \in Nat
    BY <1>1, <2>1 DEF IInv, RefsExact, TypeOK
  <2> QED BY <1>3, <1>4, <2>1, <2>2 DEF RefsExact
<1>8. TableSound'
  <2>1. \A u \in DOMAIN table' : entry'[table'[u]].user = u
    BY <1>2, <1>4, <1>5 DEF IInv, TableSound, TypeOK
  <2>2. \A r \in Slots : \/ r \in pool' /\ entry'[r].user = NoUser /\ links'[r] = 0
                         \/ r \notin pool' /\ entry'[r].user # NoUser
    BY <1>1, <1>4 DEF IInv, TableSound
  <2>3. \A r \in Slots \ pool' : entry'[r].user \in DOMAIN table' /\ table'[entry'[r].user] = r
    BY <1>1, <1>2, <1>4, <1>5 DEF IInv, TableSound, CapGoes
  <2> QED BY <2>1, <2>2, <2>3 DEF TableSound
<1>9. Working'
  <2>1. msg' = msg /\ at' = at /\ at["cap"] = s
    BY <1>1 DEF CapGoes
  <2> QED BY <1>1, <1>5, <2>1, CapGoesOK DEF IInv, Working, Idle
<1>10. BookStep
  <2> PICK v \in Users : v = msg.user
    BY <1>2
  <2>1. \A u \in Users \ {v} : Links(u)' = Links(u) /\ (u \in DOMAIN table' <=> u \in DOMAIN table)
    BY <1>1, <1>5 DEF Links, IInv, TypeOK
  <2>2. Links(v) = 0 /\ Links(v)' = 0
    BY <1>1, <1>2, <1>5 DEF Links
  <2>3. \A u \in Users : Links(u)' \in Nat
    BY <1>1, <1>5 DEF Links, IInv, TypeOK
  <2>4. \A u \in Users : Book!Unchanged(u) \/ Book!Appear(u)
    BY <1>2, <1>5, <2>1, <2>2 DEF Book!Unchanged, Book!Appear
  <2>5. DOMAIN table' \subseteq Users
    BY <1>6 DEF TypeOK
  <2> QED BY <2>3, <2>4, <2>5 DEF BookStep, Book!Next
<1> QED BY <1>6, <1>7, <1>8, <1>9, <1>10 DEF IInv

LEMMA InsertFailIInv ==
  ASSUME IInv, NEW s \in Slots, InsertFail(s) PROVE IInv' /\ BookStep
<1> USE RegistryAssumption
<1>1. /\ CapLeaves(s) /\ pc["cap"] = "count" /\ entry' = [entry EXCEPT ![s] = FreeEntry]
      /\ pool' = pool \cup {s} /\ key' \in {key, Junk} /\ UNCHANGED <<table, links, terminal>>
  BY DEF InsertFail, Leave, CapLeaves
<1>2. /\ msg.user \notin DOMAIN table /\ s \notin pool /\ entry[s].user = msg.user /\ links[s] = 0
  BY <1>1 DEF IInv, Working, CapLeaves
<1>3. \A u \in DOMAIN table : table[u] # s
  BY <1>2 DEF IInv, TableSound
<1>4. FreeEntry \in EntryRec /\ FreeEntry.user = NoUser /\ FreeEntry.refs = 0
  BY DEF FreeEntry, EntryRec, Status
<1>5. /\ entry' \in [Slots -> EntryRec]
      /\ \A r \in Slots : entry'[r] = IF r = s THEN FreeEntry ELSE entry[r]
  BY <1>1, <1>4 DEF IInv, TypeOK
<1>6. TypeOK'
  BY <1>1, <1>5, CapLeavesOK DEF IInv, TypeOK
<1>7. RefsExact'
  <2>1. \A r \in Slots : ~ Holds(r) /\ ~ Holds(r)'
    BY <1>1, CapLeavesOK DEF Holds
  <2> QED BY <1>1, <1>2, <1>4, <1>5, <2>1 DEF IInv, RefsExact
<1>8. TableSound'
  <2>1. \A u \in DOMAIN table' : entry'[table'[u]].user = u
    BY <1>1, <1>3, <1>5 DEF IInv, TableSound, TypeOK
  <2>2. \A r \in Slots : \/ r \in pool' /\ entry'[r].user = NoUser /\ links'[r] = 0
                         \/ r \notin pool' /\ entry'[r].user # NoUser
    BY <1>1, <1>2, <1>4, <1>5 DEF IInv, TableSound
  <2>3. \A r \in Slots \ pool' : entry'[r].user \in DOMAIN table' /\ table'[entry'[r].user] = r
    BY <1>1, <1>5 DEF IInv, TableSound, CapLeaves
  <2> QED BY <2>1, <2>2, <2>3 DEF TableSound
<1> QED BY <1>1, <1>6, <1>7, <1>8, CapLeavesOK, BookSame DEF IInv

LEMMA ReportIInv ==
  ASSUME IInv, NEW s \in Slots, Report(s) PROVE IInv' /\ BookStep
<1> USE RegistryAssumption
<1>1. CapGoes(s, "release") /\ pc["cap"] = "report" /\ UNCHANGED tableVars
  BY DEF Report, Goto, CapGoes, CapPlaces, tableVars
<1>2. terminal' \in [Users -> {"none", "made", "stuck"}]
  BY Callbacks DEF Report, IInv, TypeOK
<1>3. TypeOK'
  BY <1>1, <1>2, CapGoesOK DEF IInv, TypeOK, tableVars
<1>4. RefsExact' /\ TableSound'
  BY <1>1, CapGoesOK DEF IInv, RefsExact, TableSound, Holds, tableVars, CapGoes
<1>5. Working'
  BY <1>1, CapGoesOK DEF IInv, Working, Idle, CapGoes, tableVars
<1> QED BY <1>1, <1>3, <1>4, <1>5, BookSame DEF IInv, tableVars

LEMMA ReleaseIInv ==
  ASSUME IInv, NEW s \in Slots, Release(s) PROVE IInv' /\ BookStep
<1> USE RegistryAssumption
<1> DEFINE e == [entry[s] EXCEPT !.refs = @ - 1]
<1>1. /\ CapLeaves(s) /\ pc["cap"] = "release" /\ entry' = [entry EXCEPT ![s] = e]
      /\ UNCHANGED <<pool, table, links, key, terminal>>
  BY DEF Release, Leave, CapLeaves
<1>2. entry[s] \in EntryRec /\ entry[s].refs = links[s] + 1 /\ links[s] \in Nat
  BY <1>1 DEF IInv, TypeOK, RefsExact, Holds, CapLeaves
<1>3. e \in EntryRec /\ e.user = entry[s].user /\ e.refs = links[s]
  BY <1>2 DEF EntryRec
<1> HIDE DEF e
<1>4. /\ entry' \in [Slots -> EntryRec]
      /\ \A r \in Slots : entry'[r] = IF r = s THEN e ELSE entry[r]
      /\ \A r \in Slots : entry'[r].user = entry[r].user
  BY <1>1, <1>3 DEF IInv, TypeOK
<1>5. TypeOK'
  BY <1>1, <1>4, CapLeavesOK DEF IInv, TypeOK
<1>6. RefsExact'
  <2>1. \A r \in Slots : (Holds(r) <=> r = s) /\ ~ Holds(r)'
    BY <1>1, CapLeavesOK DEF Holds, CapLeaves
  <2>2. \A r \in Slots : r # s => entry[r].refs = links[r]
    BY <2>1 DEF IInv, RefsExact, TypeOK
  <2>3. \A r \in Slots : links'[r] = links[r] /\ links[r] \in Nat
    BY <1>1 DEF IInv, TypeOK
  <2> QED BY <1>3, <1>4, <2>1, <2>2, <2>3 DEF RefsExact
<1>7. TableSound'
  BY <1>1, <1>4, CapLeavesOK DEF IInv, TableSound, TypeOK
<1> QED BY <1>1, <1>5, <1>6, <1>7, CapLeavesOK, BookSame DEF IInv

LEMMA UnlinkIInv ==
  ASSUME IInv, NEW s \in Slots, Unlink(s) PROVE IInv' /\ BookStep
<1> USE RegistryAssumption
<1> DEFINE e == [entry[s] EXCEPT !.refs = @ - 1]
<1>1. /\ entry' = [entry EXCEPT ![s] = e] /\ links[s] > 0 /\ links' = [links EXCEPT ![s] = @ - 1]
      /\ UNCHANGED <<pool, table, pc, at, msg, key, terminal, left>>
  BY DEF Unlink
<1>2. /\ entry[s] \in EntryRec /\ links[s] \in Nat /\ entry[s].refs \in Nat
      /\ entry[s].refs = links[s] + (IF Holds(s) THEN 1 ELSE 0)
  BY DEF IInv, TypeOK, RefsExact, EntryRec
<1>3. e \in EntryRec /\ e.user = entry[s].user /\ e.refs = entry[s].refs - 1
  BY <1>1, <1>2 DEF EntryRec
<1> HIDE DEF e
<1>4. /\ entry' \in [Slots -> EntryRec]
      /\ \A r \in Slots : entry'[r] = IF r = s THEN e ELSE entry[r]
      /\ \A r \in Slots : entry'[r].user = entry[r].user
  BY <1>1, <1>3 DEF IInv, TypeOK
<1>5. links' \in [Slots -> Nat] /\ \A r \in Slots : links'[r] = IF r = s THEN links[r] - 1 ELSE links[r]
  BY <1>1, <1>2 DEF IInv, TypeOK
<1>6. s \notin pool /\ (pc["cap"] \in {"status", "count"} => at["cap"] # s)
  BY <1>1 DEF IInv, TableSound, Working
<1>7. TypeOK'
  BY <1>1, <1>4, <1>5 DEF IInv, TypeOK
<1>8. RefsExact'
  <2>1. \A r \in Slots : Holds(r)' <=> Holds(r)
    BY <1>1 DEF Holds
  <2>2. \A r \in Slots : links[r] \in Nat
    BY DEF IInv, TypeOK
  <2> QED BY <1>2, <1>3, <1>4, <1>5, <2>1, <2>2 DEF IInv, RefsExact
<1>9. TableSound'
  BY <1>1, <1>4, <1>5, <1>6 DEF IInv, TableSound, TypeOK
<1>10. Working'
  BY <1>1, <1>4, <1>5, <1>6 DEF IInv, Working, Idle, TypeOK
<1>11. BookStep
  <2>1. \A u \in Users : Links(u)' = Links(u) \/ (u \in DOMAIN table /\ u \in DOMAIN table')
    BY <1>1 DEF Links
  <2>2. \A u \in Users : Links(u)' \in Nat
    BY <1>1, <1>5 DEF Links, IInv, TypeOK
  <2>3. \A u \in Users : Book!Unchanged(u) \/ Book!Use(u)
    BY <1>1, <2>1 DEF Book!Unchanged, Book!Use
  <2>4. DOMAIN table' \subseteq Users
    BY <1>1 DEF IInv, TypeOK
  <2> QED BY <2>2, <2>3, <2>4 DEF BookStep, Book!Next
<1> QED BY <1>7, <1>8, <1>9, <1>10, <1>11 DEF IInv

LEMMA GrowOldIInv ==
  ASSUME IInv, NEW s \in Slots, GrowOld(s) PROVE IInv' /\ BookStep
<1> USE RegistryAssumption
<1> DEFINE e == [entry[s] EXCEPT !.old = TRUE]
<1>1. entry' = [entry EXCEPT ![s] = e] /\ UNCHANGED <<pool, table, links, pc, at, msg, key, terminal, left>>
  BY DEF GrowOld
<1>2. e \in EntryRec /\ e.user = entry[s].user /\ e.refs = entry[s].refs
  <2>1. entry[s] \in EntryRec
    BY DEF IInv, TypeOK
  <2> QED BY <2>1 DEF EntryRec
<1> HIDE DEF e
<1>3. /\ entry' \in [Slots -> EntryRec]
      /\ \A r \in Slots : entry'[r].user = entry[r].user /\ entry'[r].refs = entry[r].refs
  BY <1>1, <1>2 DEF IInv, TypeOK
<1>4. TypeOK'
  BY <1>1, <1>3 DEF IInv, TypeOK
<1>5. RefsExact' /\ TableSound' /\ Working'
  BY <1>1, <1>3 DEF IInv, RefsExact, Holds, TableSound, TypeOK, Working, Idle
<1> QED BY <1>1, <1>4, <1>5, BookSame DEF IInv

LEMMA StepIInv == IInv /\ [Next]_vars => IInv' /\ BookStep
<1> SUFFICES ASSUME IInv, [Next]_vars PROVE IInv' /\ BookStep
  OBVIOUS
<1>1. CASE UNCHANGED vars
  BY <1>1, BookSame DEF IInv, TypeOK, RefsExact, Holds, TableSound, Working, Idle, vars, tableVars
<1>2. ASSUME NEW s \in Slots, Receive(s) PROVE IInv' /\ BookStep
  BY <1>2, SearchIInv, InsertNameIInv DEF Receive
<1>3. ASSUME NEW s \in Slots, Capture(s) PROVE IInv' /\ BookStep
  BY <1>3, TouchIInv, TouchAndLinkIInv, InsertStatusIInv, InsertCountIInv, InsertFailIInv,
     ReportIInv, ReleaseIInv DEF Capture
<1>4. ASSUME NEW s \in Slots, Visit(s) \/ Reglament(s) PROVE IInv' /\ BookStep
  BY <1>4, ReglamentIInv, DeleteIInv, BookSame DEF Reglament
<1> QED BY <1>1, <1>2, <1>3, <1>4, UnlinkIInv, GrowOldIInv DEF Next

LEMMA AlwaysIInv == Spec => []IInv
<1>1. IInv /\ [Next]_vars => IInv'
  BY StepIInv
<1> QED BY InitIInv, <1>1, PTL DEF Spec

\* Type correctness: no use count of a registry entry goes negative, and the
\* table leads to entries of the array only.
THEOREM TypeCorrect == Spec => []TypeOK
<1>1. IInv => TypeOK
  BY DEF IInv
<1> QED BY AlwaysIInv, <1>1, PTL

\* col_session of an entry is the number of calls linked to it, plus one while
\* a message of its phone is handled.
THEOREM UseCountsExact == Spec => []RefsExact
<1>1. IInv => RefsExact
  BY DEF IInv
<1> QED BY AlwaysIInv, <1>1, PTL

\* The entry in the hands of the capture thread is never deleted, nor given to
\* another phone.
THEOREM NoUseAfterFree == Spec => []InHandStays
<1>1. IInv => InHandStays
  <2> SUFFICES ASSUME IInv, pc["cap"] # "idle"
               PROVE  at["cap"] \in Slots /\ entry[at["cap"]].user = msg.user
    BY DEF InHandStays
  <2>1. at["cap"] \in Slots
    BY DEF IInv, TypeOK, Working, Idle, Threads
  <2>2. pc["cap"] \in {"touch", "status", "count", "report", "release"}
    BY DEF IInv, TypeOK, CapPlaces
  <2> QED BY <2>1, <2>2 DEF IInv, Working, TableSound
<1> QED BY AlwaysIInv, <1>1, PTL

\* An entry is protected by its count as long as it is used, and no longer.
THEOREM HeldEntriesStay == Spec => []HeldEntriesKept
BY UseCountsExact, NoUseAfterFree, PTL DEF HeldEntriesKept

\* The tree, the array and the free list of the registry agree.
THEOREM TableStaysSound == Spec => []TableSound
<1>1. IInv => TableSound
  BY DEF IInv
<1> QED BY AlwaysIInv, <1>1, PTL

\* The registry keeps the promise on which the links of the calls rely: a phone
\* that is linked to a call does not vanish.
THEOREM RegistryImplementsBook == Spec => ImplementsBook
<1>1. Init => Book!Init
  BY DEF Init, Book!Init, Links
<1>2. IInv /\ [Next]_vars => [Book!Next]_(Book!vars)
  BY StepIInv DEF BookStep
<1> QED BY <1>1, <1>2, AlwaysIInv, PTL DEF Spec, ImplementsBook, Book!Spec
=============================================================================
