# VoIPRecorder: formal models and proofs

VoIPRecorder is a Windows DLL (`src/src/RecorderLib`) that watches the SIP and RTP
traffic between the phones and a PBX, follows registrations and calls, mixes the
RTP streams of a recorded terminal, and reports events to the application through
a callback. This directory holds TLA+ models of its concurrent parts, the TLC
configurations that check them, and proofs that TLAPS checks.

    tlc -workers 2 -config MCSipSessionsCalls.cfg MCSipSessions
    tlapm SipSessionsProofs.tla

## 1. The system

    network --pcap--> CUDPPacketFilter --> CTerminalManager --> CSIPManager --> SIPLib
     (capture thread)                          |   ^  |             ^            tables
                                               |   |  |             | callbacks    ^
                                               |   +--|-- ICallEvents              |
                                               |      +--> CRTPRecorder     SipReglamentThread
                                               |            | RTP                (every 10 s)
      application --MP_*--> RecorderMain --> CTerminal --> CTerminalAudio, CStreamMixer
          ^                                    | Push
          +----- CNotifyThread <--- CMessageQueue

| component | state | operations | threads | model |
|---|---|---|---|---|
| SIPLib active-session table (`tbl_sip_*.c`, `sip_worker_parse.c`) | array of slots, each a call: status, use count `col_session`, `is_send_start/stop`, two sides with `rtp_task` and `rtp_task_old`, links to the registry | search, insert, free (end of use), delete, reglament | capture, reglament | `SipSessions` |
| SIPLib registry table (same files) | array of phones: name, status, use count `col_session`, expiry, phone type; free list; tree by name | search, insert, free (end of use), delete, reglament | capture, reglament | `SipRegistry`, `PhoneBook` |
| SIPLib hash table and binary tree (`mvi_hash_table.c`, `mvi_binary_tree.c`) | counted trees of hashes, chains of equal ones, a pool of nodes for all tables | insert, search, delete, balance; get and add nodes | under one mutex per table, the pool under its own | `BinaryTree`; a map in the modules of the tables |
| SIPLib memory (`mvi_malloc.c`) | large buffers cut into items, masks, lists by longest free run | malloc for an owner, free of an owner's chain | capture, reglament, one mutex | `FreeBuffers` |
| `CSIPManager` | four maps: calls, sessions, tasks; next session id | seven callbacks of SIPLib, the queries of `ICallManager` | whoever runs SIPLib, and API threads | `SipManager` |
| `CMessageQueue`, `CNotifyThread`, `CSimplyThread` | queue, three events, the thread | Push, Pop, Clear, Start, Stop, two waits, Run | all | `NotifyQueue` |
| `RecorderMain` (`MP_*`) | global objects under `g_xApiLocker` | open, close, set callback, per-terminal calls | application | open, close and set callback in `NotifyQueue`, terminals in `TerminalManager`, recording in `Recording` |
| `CTerminalManager` | terminals by id, by IP, in a vector, under `m_cs` | create and delete on registration, routing of events and packets | capture, reglament, API | `TerminalManager` |
| `CTerminal` | reference count, list of calls, state, auto-record flag | call events, state, recording, queries | capture, reglament, API | life in `TerminalManager`, calls and streams in `Recording` |
| `CTerminalAudio`, `CStreamMixer`, `CRTPRecorder`, `CRTPRecorderSession`, `CStreamer` | streams of the recorded calls, RTP sessions by id, buffers | start and stop of recording, stream added or deleted, mixing | RTP thread, capture, API | `Recording`; the time line of a stream in `RtpTimeline` |
| `IRCircularBuffer` | ring of bytes, read and write offset, overrun | add, get, resize | one thread, or its owner's lock | `RingBuffer`, `ByteQueue` |
| `CUDPPacketFilter` | pcap handle, listener, thread | start, stop, run | capture, API | a producer of `NotifyQueue` |

Parsing of SIP, SDP and NEC bodies (`sip_parser.c`, `SIPPacket.cpp`,
`SIPContent*.cpp`), value classes, settings, the Settings dialog, logging, codecs
and the vendored libraries (jrtp, pcap, tinyxml, g722) keep no state that a later
step depends on, or are third-party code; they are not modelled.

### What is hard

* Two threads work on the tables of SIPLib. The table mutex covers a search or an
  insert, not what is done with the entry afterwards: the entry is protected by its
  use count, and the reglament thread tests status and count without the mutex.
  Callbacks run with no table lock held.
* `is_send_stop` is the only guard against announcing the end of a call twice.
* The registry reads name, use count and status of an entry one after the other
  without the mutex, deletes up to twice in one visit, and searches for the entry to
  delete by a name it read from it.
* A registration has three sources of truth: the status of the entry, whether the
  entry is in the table, and what the terminal manager was told.
* A slot is reused for other calls, and the addresses of its `rtp_task_t` are keys
  in `CSIPManager`.
* A Call-ID may come back before its slot is freed: an INVITE sets the status to
  "started" whatever it was.
* The notify thread is driven by two auto-reset events and one manual-reset event,
  and is started and stopped again and again.
* `MP_Close` deletes the terminal manager while the reglament thread goes on.
* Terminals are reached through a map by number, a map by address and a list, some
  under `m_cs`, some under `CSIPManager::m_xLocker`, some under nothing, and counted by
  plain increments; addresses move from one terminal to another.
* What is recorded is decided in four places (a terminal's calls, its streams, the
  mixers' inputs, the streamer's bindings) under three locks, or none, while the RTP
  thread writes through the bindings every 40 ms.
* The data structures below are hand-made: balanced trees with parent links and
  counts, an allocator with masks and doubly linked lists, a ring of bytes, a time line
  in wrapping 32-bit timestamps.

### What makes each component correct

* *Active-session table*: no slot is freed under a thread; use counts are exact;
  a call has one slot; starts and ends of a call alternate at the listener; no slot
  vanishes before the end of its call was announced; a stopped or unanswered call
  leaves the table in the end.
* *Call manager*: a task leads to its own session or none; the recorder has exactly
  the sessions that were announced; ids never come back.
* *Notification*: events in order, once, none slept through; one notify thread;
  open and close return.
* *Registry*: an entry is not freed while a call links to it or a message is handled
  in it; array, free list and tree agree; an ended registration leaves the table; a
  phone is reported once when it appears and once when it is gone (it is not: see
  section 5).
* *Terminal manager*: the three containers agree and lead to live terminals; counts
  are exact; a terminal in use, by the application or an event, is not deleted; API
  calls return.
* *Recording*: the RTP thread writes into inputs that exist; all sessions of the calls of
  a recorded terminal are recorded, through re-INVITEs; the recorder listens on the
  ports of its sessions; audio comes out.
* *Structures*: the ring buffer is a queue that drops its oldest bytes; a search in a
  tree finds all entries of a hash; nodes and items have one owner; the allocator
  refuses only what it cannot give; the recording is as long as the packets say.

The list of hazards, each at its line, is in `PROJECT.json`.

## 2. The modules

### SipManager

`CSIPManager` with the part of its listener that the properties need. Every
callback takes `m_xLocker`, so each is one action: `CbOnCallStart`, `CbOnCallEnd`,
`CbOnNewSession`, `CbOnEndSession`, `CbOnUpdateSession`. The containers `m_xCalls`
(`calls`), `m_xSessionsTasks` (`tasks`; 0 is "no entry", as in `GetSessionID`),
`m_xSessionsParams` with `m_xSessionsToCalls` (`sessions`) and the counter
`m_uLastSessionID` (`nextId`) are variables. `recorder` is what `CRTPRecorder` has been
told, `heard` the `OnNewCall` events not yet matched by an `OnEndCall`.
`cbOnRegister` and `cbOnEndRegister` keep no state; they are in `SipRegistry`.

### SipSessions

The table and its two threads, composed with `SipManager` (`Manager == INSTANCE
SipManager` on the same variables: each callback the table makes is the manager's
action). A step is what the code does atomically: one critical section of the table
mutex, one unlocked test or store, or one callback.

| step | code |
|---|---|
| `Search`, `Insert` | `sip_active_session_search`, `sip_active_session_insert` under the mutex, with the switch on the message (`StatusAfter`), the use count and `media2task` |
| `Link`, `AnnounceCall` | `sip_check_active_session`: the registry lookups, then `is_send_start` and `on_call_start` |
| `AnnounceMedia` | `sip_worker`: new session or update |
| `CheckStopped`, `MarkStopped`, `AnnounceEndOfSession`, `AnnounceEndOfCall`, `Release` | `sip_active_session_free`, by the capture thread |
| `Visit`, `Look`, `Pass`, `Expire` | `active_session_reglament`: the count, then the status, both unlocked |
| `CheckDelete`, `MarkStopped`, ..., `Delete` | `sip_active_session_delete` and `hd_active_session`, by the reglament thread |
| `FallSilent` | 60 s pass (`MAX_TIME_CONNECT`) |
| `Enter`, `Leave` | the registry, as far as `PhoneBook` tells |

A SIP message is a record of what the table reads of it: kind, Call-ID, side (the
code compares MAC addresses) and SDP endpoint. Slots are visited in any order.

### PhoneBook

What the two tables of SIPLib agree on: phones are present or not, each is used by a
number of calls, and a phone neither comes nor goes while it is used (`Appear`,
`Vanish`, `Use`, `Unchanged`, phone by phone). It composes the two detailed modules:
`SipRegistry` implements it with the names in its tree and the links of all calls,
`SipSessions` implements it with the names its calls may find and the links it
counts. A module that ran both tables at once would multiply two state spaces to
check the same agreement.

### SipRegistry

The registry table with both threads and the reports they make. `entry` is the array
`user_registry[]`, `pool` its free list, `table` the hash table by name, `links` the
pointers `puser_registry0` and `1` of all calls. `terminal` is what `CTerminalManager`
knows of a phone: nothing, a terminal, or (`"stuck"`) that it was told of a new phone it
knew, upon which `CreateTerminal` returns with `m_cs` held.

| step | code |
|---|---|
| `Search` | `hash_table_search` takes the mutex, `hs_registry` up to the report of a type just learnt |
| `Touch`, `TouchAndLink` | the rest of `hs_registry`: status, time, use count; an INVITE keeps the reference for its call |
| `InsertName`, `InsertStatus`, `InsertCount` or `InsertFail` | `hi_registry`, cut where the other thread, which takes no lock to read, can tell the difference |
| `Report`, `Release` | `func_on_register`, then `sip_registry_free` |
| `Visit`, `Look`, `Pass` | `user_registry_reglament`: name and count, then the status |
| `TellEnd`, `ReadKey`, `Delete` | `sip_registry_delete` and `hd_registry`, once in each of two rounds |
| `Test`, `Expire` | the time, and the status that is written without a lock |
| `Unlink` | `hd_active_session` gives back the links of a call |
| `GrowOld` | `expires` and 20 s (`MAX_TIME_REGISTRY`) pass |

A message is its kind, the phone and whether a User-Agent header tells the type. The
kinds are those on which `sip_check_registry` and `sip_check_active_session` search: a
REGISTER, its 2XX with or without time to live, a 2XX to a NOTIFY, and a party of an
INVITE. A name buffer freed by `InsertFail` while the reglament thread holds a
pointer to it may read as any name (`Junk`, `KeyRead`).

### NotifyQueue

`CMessageQueue`, `CNotifyThread` on `CSimplyThread`, and `MP_Open`, `MP_Close`,
`MP_SetCallback`. `ready`, `stop` and `running` are the three Windows events: two
auto-reset, one manual-reset. `WaitForMultipleObjects` prefers the queue event, as
Windows does. Push sets the event after it has left the lock, so it is two steps;
the callback pointer is tested and used in two steps; `IsRunning` and the
`ResetEvent` that depends on it are two steps in both threads that do this.
`Detached` is the set of producers that `MP_Close` does not wait for: the reglament
thread, which can be in the middle of a `Push`. (It then also uses the deleted
manager: section 7.) The application is assumed to open a closed library and
close an open one.

### TerminalManager

`CTerminalManager` and the reference counts of `CTerminal`, with the three kinds of
threads that meet there. `cs` is the recursive `m_cs` with its owner and depth; `locker`
is `CSIPManager::m_xLocker`, which every callback of SIPLib holds; `g_xApiLocker` makes
the application one thread, `"api"`. `Release` is cut into its accesses to the count
(`Load`, `Store`, `Delete`; the last may use the value just stored or read it again), as
nothing makes it atomic.

| step | code |
|---|---|
| `Packet`, `PacketDone` | `OnUDPPacket`, which takes no lock |
| `Register`, `RegisterLocked`, `CreateNone`, `CreateKnown`, `Create`, `Status` | `cbOnRegister`, `CreateTerminal` with its two early returns, the report to the message queue |
| `CallEvent`, `CallEventDone` | `OnNewCall`, `OnEndCall`, `OnNewSession`, `OnSessionModify`, `OnStopSession`: `GetDeviceByCallID`, then the terminal |
| `EndRegister`, `EraseNone`, `Erase`, `Load`, `Store`, `EraseDone` | `cbOnEndRegister`, `DeleteTerminal` |
| `Call`, `GetNone`, `Get`, `Use`, `Load`, `Store`, `CallDone` | an `MP_*` function of one port |
| `Close`, `CaptureEnded`, `CloseNext`, `CloseReleased`, `Closed` | `MP_Close`: the capture thread is waited for, `~CTerminalManager` releases the devices |

Assumed of SIPLib: the end of a registration names the address of its start, and
different phones have different numbers. `SipRegistry` shows how SIPLib can report a
phone twice, which is allowed here and leads to `CreateKnown`.

### Recording

One terminal with its calls and streams, the inputs of its two mixers, the sessions and
ports of `CRTPRecorder`, the bindings of `CStreamer`, and the RTP thread. A handler puts
the steps it still has to do into `prog`, each no longer than the code holds a lock:
`OnStopSession`, for instance, is `StopSession` (the recorder, under its lock) and then
`DeleteStream`, `StopRecord`, `DeleteInput` and `EraseStream`. The iteration over
`m_xStreams`, which has no lock, is one step per stream (`RecordNext`), and an iterator
whose stream the other thread has erased may lead anywhere (`NextStreams`). The RTP
thread flushes the bound streams one by one, holding the recorder's lock
(`FlushStream`), through the mixer to the merged buffer; the amount of audio is left
out, there being some is not.

Left out of `Recording`: the call state of NSIP phones, caller id and record time; a
terminal that registers again (it is a new one); calls older than the terminal are
known to the manager from the start and never to the terminal (`Init`). The application
calls `ApiCalls`, a constant, and `MP_GetAudioData`.

### RingBuffer and ByteQueue

`CIRCircularBuffer` with offsets for its pointers. `AddData`, `AddTooMuch` (the branch
for more than a bufferful), `GetData` with and without peeking, `SetBufferLength`.
`ByteQueue` is what it promises: a queue that keeps the newest bytes it has room for.
`ImplementsQueue` is the refinement: the queue is what lies from the get pointer on.
A buffer is only ever resized when it is empty (`TerminalAudio.cpp:23` and `29`);
`ResizeFull` lifts this.

### BinaryTree

The hash tables' trees and chains, two tables side by side with the pool of nodes they
share. A table's mutex makes its operations exclude each other, so each table has one
operation at a time, cut into the rounds of its loops; the pool's mutex is left between
`binary_tree_get` and `binary_tree_add`, where another table may come in. Assumed:
`malloc` does not fail, and other tables do not use up a new chunk of nodes before the
table that made it has its node. (If they did, `binary_tree_get` would fail after the
counts of all nodes on the way were raised.) `Collide` lets keys of the registry have
equal hashes.

### FreeBuffers

`mvi_malloc.c`: `MallocThere` (an item of the chain has room), `MallocNew`,
`MallocRefused`, and the freeing of a chain, item by item from its end, as the recursion
leaves the mutex between them. A mask is the set of units taken. Requests larger than a
buffer are left out: they are refused before anything is changed; so is `malloc_char_exp`,
which nobody calls.

### RtpTimeline

What `CRTPRecorderSession::ProcessReceivedPakets` makes of timestamps. Packets are sent,
lost, held back, and handed over by jrtp in the order of their numbers; a timestamp is
taken modulo `Width`. `written` counts samples, of audio and of silence. Of the codecs
only those with a byte per sample (G.711) are modelled: G.722's timestamps count half of
them. Packets of other payloads (`other`) move the next timestamp, but nothing is written
of them, nor of the silence before them (the `default` in `OnPayloadData`). The session
takes the source of the first packet; packets of other sources are deleted without effect,
and are left out.

### MCStructures

The last four have no state in common; one run checks them all, each behaviour being a
behaviour of one of them.

## 3. The runs

| run | instance | shows |
|---|---|---|
| `manager` | 2 calls, 2 tasks, 2 endpoints, 3 ids | any order of callbacks keeps the maps and the recorder consistent; tasks are reused |
| `calls` | 2 slots, 2 calls, 2 endpoints, 3 messages | use counts, no freeing in use, one slot per call, start and end events alternate, no lost end, the recorder listens where the slot says, refinement of `SipManager` |
| `links` | 2 slots, 2 calls, 1 user, 2 messages, fair | registry use counts equal the links; `PhoneBook` is implemented; a stopped or unanswered call leaves the table; no deadlock |
| `challenged` (violation) | 1 slot, 1 call, 5 messages | a connected call that was never announced |
| `registry` | 2 slots, 2 phones, 4 look-ups, all kinds | use counts, no freeing in use, array, pool and tree agree, `PhoneBook` is implemented |
| `registry_live` | 1 slot, 2 phones, 3 look-ups, fair | an unregistered phone leaves the table, comes back or is in a call |
| `notify` | 2 producers (one detached), 4 events, 3 openings | order, no lost wake-up, one thread, nothing left over |
| `notify_live` | 2 producers, 3 events, 1 opening, fair | close returns, events arrive |
| `terminals` | 2 phones, 2 addresses and the PBX, 3 terminals, fair | containers agree, counts exact, no terminal deleted under a call or an event, API calls return |
| `recording` | 2 calls, 2 sessions, 2 neighbouring ports, 3 inputs, automatic recording, fair | bindings lead to live inputs, ports agree, all sessions of a recorded terminal are recorded, audio comes out |
| `recording_stale` (violation) | 1 call, 2 sessions, no automatic recording at first | streams left over after their call |
| `structures` | ring: 2 byte values, lengths 2 and 3, blocks to 3; tree: 2 tables, 3 hashes, 4 nodes, chunks of 2; buffers: 4 buffers of 2 units, 2 owners, 2 items each; time line: 6 packets of 3 samples around the wrap of 64 timestamps | queue refinement, searches and counts, one owner per node and item, lists, refusals, the time line |

More configurations are not part of the runs; each has TLC print a counterexample,
for the reader of section 5:

| configuration | module | property |
|---|---|---|
| `MCSipManagerByCall.cfg` | `SipManager` | `SessionsByCallIDComplete` |
| `MCSipSessionsOutlive.cfg` | `MCSipSessions` | `NoSessionOutlivesSlot` |
| `MCNotifyQueueStale.cfg` | `NotifyQueue` | `NotifiedWhileOpen` |
| `MCNotifyQueueNull.cfg` | `NotifyQueue` | `SilentWhenNull` |
| `MCSipRegistryTwice.cfg` | `MCSipRegistry` | `NewReportedOnce` |
| `MCSipRegistryRefused.cfg`, `MCSipRegistryLearnt.cfg` | `MCSipRegistry` | `RegisteredIsReported` |
| `MCSipRegistrySilent.cfg` | `MCSipRegistry` | `ExpiredIsReported` |
| `MCTerminalManagerClose.cfg` | `TerminalManager` | `AllReleased` |
| `MCRecordingMonitor.cfg` | `Recording` | `BindingsLive`, with `MP_AudioMonitor` |
| `MCRingBufferResize.cfg` | `RingBuffer` | `ImplementsQueue`, with a resize of a buffer that holds data |
| `MCRtpTimelineWrap.cfg` | `RtpTimeline` | `TimelineKept`, where the next timestamp wraps to 0 |
| `MCRtpTimelineLate.cfg` | `RtpTimeline` | `TimelineKept`, with packets that come late |
| `MCRtpTimelineOther.cfg` | `RtpTimeline` | `LossesMadeGood`, with packets whose payload is not audio |
| `MCBinaryTreeCollide.cfg` | `MCStructures` | `EntriesFound`, with equal hashes in the registry |

The counterexample of `MCBinaryTreeCollide.cfg` is to `EntriesFound`, which is one half of
`TreesSound` (the other, `CountsExact`, says that the counts by which the trees are
balanced are those of the subtrees). In the same way `HeldSlotsKept`, `HeldEntriesKept`,
`ClosedIsQuiet`, `ContainersSound`, `UseLive` and `PoolSound` each join two or more named
invariants about one hazard, which are stated and commented where they are defined.

Bounds. `MaxMsgs` bounds the SIP messages: two threads of which one is at work on one
message at a time need an INVITE and one message to race on a slot with the
reglament thread, and a third for what comes after; five are needed for INVITE,
refusal, ACK, a second INVITE, and its answer. Two slots and two calls let a slot
go from one call to another while another call lives. In the registry four look-ups
let a phone come, be visited while it is inserted, go in the first round of a visit,
and its slot be taken by the other phone before the second. Slots are interchangeable, and
so are endpoints; this symmetry is used by the safety runs only. `MaxId`,
`MaxEvents` and `MaxOpens` bound counters that the code keeps in 32 bits; their
wrap-around is not modelled. Three terminals for two phones let one phone register anew
while its old terminal is still held by the application, and two addresses let one
take over the other's; numbers of calls of the application, packets and events are not
bounded. In `recording` three inputs let one be deleted, and another made, while
the RTP thread is bound to a third; the two ports are neighbours, as the port list holds
the RTP and the RTCP port of a session and an off-by-one would confuse them. The ring is smaller than
two blocks, the trees are deep enough for both kinds of rotation, the pool of nodes grows
once, a buffer is exactly used up by two items, and the time line wraps within the seven
packets, with a gap before, at or after the wrap. `CHECK_DEADLOCK FALSE` stands where the traffic may end
with nothing left to do; in `links` registrations come and go for ever and deadlock
is checked.

Fairness. In `SipSessions` both threads keep running (weak fairness of the steps of
a thread on a slot), the reglament loop comes to each slot again and again (strong
fairness of `Visit`: the count of a slot is nonzero now and then, but the loop never
ends), and time passes (`FallSilent`). Nothing makes a message come. In
`SipRegistry` the same holds; calls need not end and phones need not send. In
`NotifyQueue` the notify thread, a thread inside `Push` and an API call in
progress keep running; nobody is forced to call the API or to produce an event.
In `TerminalManager` each of the three threads, once inside the manager, goes on
(strong fairness of its steps: a lock that others take and leave again and again is
given to it at last); nothing makes a packet, a registration or an API call begin. In
`Recording` the RTP thread's loop never ends and flushes again and again (weak fairness of
`FlushStream`), and a handler that has begun goes on, waiting for the recorder's lock if
it must (strong fairness). Streams are assumed to go on delivering packets for as long as
their session lives, which is what `AudioDelivered` is about.

Every property of a passing run has a mutant: an operator that changes one mapped
definition the way a bug would, under which TLC finds the property violated.

## 4. What is proved

TLAPS checks these for every value of the constants, from the assumptions in the
modules (the "no ..." values are outside their sets, bounds are naturals, the
set of producers is finite). Two theorems about `Recording` assume more, of the calls the
application makes: `BindingsStayLive` and `CallsStayRecorded`, where it is explained. The
bounds play no part in the safety arguments.

*`SipManagerProofs`*: `TypeCorrect`, `TaskIndexCorrect`, `RecorderAlwaysInStep` and
`IdsNeverComeBack` (of `IdsNeverReused`, which no run checks). The invariant needs one thing besides the properties: every id in use is below `nextId`.

*`SipSessionsProofs`*. The inductive invariant has four parts.

1. `TableInv`: where the threads are (`PlacesOK`), and the protection of slots:
   `RefsExact` (a slot's count is 1 when the capture thread holds it, else 0),
   `InHandInUse`, `OneSlotPerCall`, and that the reglament thread reaches `Delete`
   only over a slot marked as stopped (`DeleteAfterMark`). `InHandInUse` is not
   inductive alone: `Delete` frees a slot only if its count is 0, so the count must
   be exact, and `Visit` may choose a slot that the capture thread takes later,
   which is harmless only because `Delete` looks at the count again.
2. `MediaKept`: endpoints before they are announced.
3. `CallsOK`: `CallEventsAlternate` counts starts and ends at the listener. A call the
   manager holds is in a slot that has announced it (`CallHeld`), so the first
   announcement of a slot finds the call unknown. Once `is_send_stop` is set, the
   manager keeps the call only while a thread is on its way to announce the end
   (`EndDone`), so the call is gone before its slot is. Both threads may announce the
   same end: the second announcement finds nothing to end, which is why the
   unlocked test of `is_send_stop` does no harm here.
4. `IdsOK`: session ids against messages consumed, for the refinement.

From it: `NoUseAfterFree` and `UseCountsExact` (together `HeldSlotsStay`), `CallsNotDoubled`, `EventsAlternate`,
`EndsNotLost`, `EndsAreFinal`, `TypeCorrect`, and `TableImplementsManager`: every
behaviour of the table with its threads is a behaviour of `SipManager`, so that the
theorems of `SipManagerProofs` hold under the table
(`ManagerStaysConsistent`).

`RecorderAlwaysFollows`: `RecorderFollowsMedia`. The property compares the endpoint of a
slot with the recorder, and both change at different places of the capture thread; between
them stands the copy in the slot by which `parse_message` sees that an endpoint is new. The
invariant `FollowInv` goes over the copy: except while the capture thread is on its way to
announce it (`Unannounced`), an endpoint is equal to its copy (`CopiesAgree`), and the
recorder listens to the copy wherever the manager has a task (`ListensToCopy`). It stands on
`IInv` of `SipManagerProofs`, which holds under the table (`AlwaysManagerInv`): ids are not
shared, so that what ends or modifies one session leaves the others alone (`KeepsTask`). A
slot whose call has ended keeps its endpoint but has no task, and one that is inserted anew
starts with none of both.

`LinksStayCounted` and `SessionsImplementBook`: the invariant `LInv` adds that a slot not in
use has no links, so that a new call starts with none and a freed one takes its own back.
The counting is done with the finite-set theorems: linking adds, and freeing takes away, the
pairs of one slot. That the set of slots is finite is assumed for this.

*`SipRegistryProofs`*: `TypeCorrect`, `UseCountsExact` and `NoUseAfterFree`
(together `HeldEntriesStay`), `TableStaysSound`, `RegistryImplementsBook`. The invariant is `TypeOK`, `RefsExact`,
`TableSound` and `Working`, which says for each place of the capture thread what it
may rely on: between search and use count it holds the mutex, so that no deletion can
come between; afterwards the entry is counted, so that no deletion succeeds. This is
why the unlocked decisions of the reglament thread do no harm to the table:
`Delete` searches by name and looks at the count again under the mutex, and whatever
name it read, the entry it finds is one nobody uses. What they do to the reports is
another matter (section 5).

*`TerminalManagerProofs`*: `TypeCorrect`, `ContainersAgree` and `MapsStayLive` (together
`ContainersStaySound`), `CountsStayExact`, `ApiUsesLiveTerminals` and
`EventsUseLiveTerminals` (together `TerminalsInUseLive`), for any phones, addresses and
terminals. The inductive invariant `IInv` says where each thread can be (`PcOK`), which lock
it then has (`LockOK`), and what the terminal in its hand is (`HandOK`): while a
registration ends, its terminal has left the maps, or is about to, under `m_cs`. The heart is
`CountOK`: `Release` is not atomic, but of the two threads that can be inside it, the
reglament thread has `m_cs` and the application took its reference under `m_cs`; the
value either has read is stale only if the terminal has left the maps. `CountExact`
therefore claims nothing of a terminal outside the maps, where a decrement can indeed be
lost; `ApiUseLive` survives because both threads' references are still counted until
each has read the count. The erasing of a vector's element
(`RemoveAt`) is a lemma on sequences, `EraseOne`.

*`BuffersProofs`* is about what queues and buffers, in four modules: `NotifyQueue`, `RingBuffer`,
`FreeBuffers` and `RtpTimeline`.

Of `NotifyQueue`: `TypeCorrect`, `EventsInOrder`, `WakeupsNotLost`,
`OneNotifyThread` and `BacklogAfterClose` (together `QuietAfterClose`). `NoLostWakeup` has to be claimed for every
place from which the thread can fall asleep (`WakeupPending`); `OneThread` needs the
life of the state event (`Lifecycle`: clear before the thread has begun and after
it ended) and that `MP_Close` passes its wait only when the thread is gone; what is
left in the queue is bounded together with what is in the middle of a `Push`
(`BacklogBounded`).

Of `RingBuffer`: `RingAlwaysOK` (the pointers are inside the buffer, and apart by its
count) and `RingIsQueue`: every step of the ring is a step of `ByteQueue`, for any size,
blocks of any length and any bytes, provided the buffer is only resized when it is empty
(`~ ResizeFull`). Each of the four operations has a lemma that reads the bytes from the get
pointer on, across the wrap, before and after.

Of `FreeBuffers`: `PoolAlwaysSound` and `RefusedOnlyWhenFull`, for any sizes, chunks,
owners and requests. The invariant `PoolInv` has two halves. `Linked` says that each list has a
sequence that goes over its buffers, linked both ways, as long as its count, and that these
are the buffers whose longest run is the list's (`Home`): the sequence stands for the
recursion by which `OnList` follows the links, and one lemma each says what it becomes when a
buffer leaves the list, wherever it is in it (`ListShorter`), when one comes to its head
(`ListLonger`), and when a chunk is made (`ListOfChunk`). That the recursion goes over the
sequence (`OnListIs`) is shown by the least place where it would not. `ItemsAre` says that no unit
has two items, and the masks have those that are taken. An item gives back the units that it
took because its size was computed from them (`UnitsOfIs`). A request is refused when
no list long enough has a buffer; the first half then says that there is no such buffer.

Of `RtpTimeline`: `TimelineAlwaysKept` states `TimelineKept` for any rate, start and losses, provided no packet comes
after a later one was written (`~ Late`) and no timestamp of the stream is 0 (`NoZero`):
without either the property is violated (`MCRtpTimelineLate.cfg`, `MCRtpTimelineWrap.cfg`;
section 5). Where packets of other payloads come, only the half of it that does not depend on
them is claimed: the stream is never longer than the packets before the next timestamp. The
invariant `LineInv` says which packet that timestamp is of, modulo its width, and that what was
written since the first is at most what the packets before it hold, and all of that when every
one of them was audio.

*`BinaryTreeProofs`*: `NodesAlwaysApart` and `TreesAlwaysSound`: `NodesApart` and `TreesSound` of `BinaryTree`, for
any tables, hashes, chunks and bounds, so for trees of any shape and depth. The hypothesis is
that keys of equal hash do not share a chain from which the head is deleted (`Collide =>
ByEntry = Tables`); `MCBinaryTreeCollide.cfg` shows what happens otherwise. The invariant
`TreeInv` says of each table that its nodes make a tree (`Shape`): links and parents match,
a chain has no sides, and what is below a node is on the sides that the hashes tell. "Below"
cannot be a recursive definition here, so the invariant says that there *is* a function from
nodes to what is below them that agrees with the links and never has a node under itself; each
step of the code then has its lemma, which gives the function after it: `RotatedShape` (a
child comes up), `NewShape` (a node at the end of a branch, or at the head of a chain),
`NextShape` (the next of a chain takes over) and `GoneShape` (a node with one child at most
goes). Between the steps of an operation the invariant says what is not yet right: of which
nodes the count is one too high (`Over`: the parent of where an insertion is, the place it has
found, the node a deletion has come to on its way up), that a hash belongs where its
insertion has got to (`Path`), and that the root is only right when a deletion has come to
the top (`Placed`). That a search finds what is there (`SearchFinds`) is shown by the least
number of steps at which it would have left the way to the node; the way is not longer
than there are nodes, by which `Search` counts its steps (the loop of
`binary_tree_check_find` has no bound, and needs none). That the free list is looked at
without its mutex does no harm because every node that no table uses is cleared, in the
list or not (`NodesOK`), and `Fill` makes new nodes only of these.

*`RecordingProofs`*: `PortsAlwaysAgree`. The invariant `PInv` adds that the recorder has the
sessions of `CSIPManager` and that ids are below the next: so the ports a new session adds
are not there yet, and those that a re-INVITE or an end takes out are no other session's.
An entry of the port list is a port with the session it was opened for, so that two
sessions on one port do not take each other's away.

`BindingsStayLive`: `BindingsLive`, where the application does not call `MP_AudioMonitor`
(`ApiCalls \subseteq {"auto", "no auto"}`). It is needed: with `MP_AudioMonitor`, whose
thread works on the streams together with the reglament thread, the property is violated
(`MCRecordingMonitor.cfg`). The invariant `BInv` says of every step a thread still has to do
what the code takes for granted when it gets there (`ThreadOK`): its stream is in the list,
its input is there, its session is unbound. Three facts carry it: at most one thread works
on the terminal (`RefsOK`, from the reference count); when inputs are taken away stream by
stream, every stream still bound lies ahead of the iterator (`Ahead`, `NotBehind`), so that
when the loop has ended, outside of a recording nothing is bound (`StoppedOK`), and nothing
is left to lead to an input when the terminal is destroyed; and a stream has its own
session, input and place in the list (`ListOK`, `BoundOK`). There is one lemma for each
action.

`AlwaysTyped`: `TypeOK`, whatever the application calls, `MP_AudioMonitor` included. That
references stay between none and two, and that the two mixers share no input and hold all
there are, follows from no type: the reference count is exact (`Counted`: one for the maps,
or for the handler that has taken the terminal out of them, and one for an API call), since
a handler's steps come in an order the code has (`Comes`) and the last one of a call gives
its reference back; what only the callbacks do is done while the terminal is in the maps
(`StepMeets`); and an input is in one mixer, once (`InputsHeld`). The invariant is
`TInv`.

*`RecordingCallsProofs`*: `CallsStayRecorded`, that is `CallsRecorded`, where recording is automatic
from the start and stays so, and `MP_AudioMonitor` is not called (`ApiCalls \subseteq
{"auto"}` and `AutoAtStart = TRUE`, the values of the run `recording`). Both are needed: a
stream that ends while its terminal is not recorded is left in the list, and the next
recording makes an input for it that nobody feeds (section 5). Under them only the callbacks
of SIPLib work on the terminal as long as it is in the maps, so that what is left to do is
one list of steps (`Sip`), in an order the handlers have (`Shape`). The invariant `CInv`
accounts for everything that is not as the property wants it by a step of this list: a
recording that is not yet begun or ended (`Phase`), a call that is to leave the list
(`CallsOK`), a session of a call that has no stream, or no longer (`ListedOK`), a stream that
is not yet bound, or no longer (`FedOK`), and an input that is made before, and deleted after,
its stream is bound (`OwnedOK`, `OneInput`, with `MixedOK` and `SidesOK` for the mixer it is
in). When the list is empty, that is the property. Once the terminal has left the maps it only
remains that nothing but its deletion is left to do, and that the last reference ends the
recording (`LeftoverOK`, `QuietOK`).

Only model-checked: every liveness property, as the prover has no rule for fairness. Every
invariant and every refinement that a passing run checks is proved, under the hypotheses above.

## 5. What the checks found

* `GetSessionsByCallID` always answers with an empty list, and the end of a call does
  not end its sessions (`MCSipManagerByCall.cfg`).
* A call whose first INVITE was challenged is connected without `OnNewCall`
  (`challenged`).
* A session opened after the end of its call was announced is never stopped
  (`MCSipSessionsOutlive.cfg`).
* A phone is reported as new a second time, after its entry was looked at while it was
  being inserted and deleted in silence (`MCSipRegistryTwice.cfg`).
* A phone that comes into use while its end is being announced stays registered and
  is never reported again (`MCSipRegistryRefused.cfg`).
* A phone whose type is learnt from a REGISTER still waiting for its answer is never
  reported (`MCSipRegistryLearnt.cfg`).
* A phone that falls silent between REGISTER and answer stays for ever
  (`MCSipRegistrySilent.cfg`).
* `MP_Close` can leave the stop event set: the next `MP_Open` gets a notify thread
  that ends at once, or hangs in `WaitForStart` (`MCNotifyQueueStale.cfg`).
* The callback may be called after `MP_SetCallback(NULL)` has returned
  (`MCNotifyQueueNull.cfg`).
* A call that ends while its terminal is not recorded leaves its streams in the
  terminal's list. The next recording makes inputs for them, and since a mixer waits for
  all its inputs, nothing is heard of the next call (`recording_stale`). This is why
  `recording` starts with `MP_AutoRecord` on, as when the application calls it before the
  first call of a port (`AutoAtStart`): with `AutoAtStart = FALSE` it may be switched on
  between the calls, and TLC finds `CallsRecorded` violated by a stream left over.
* `MP_AudioMonitor` while a session begins or ends may make a second input for a
  session, or leave the RTP thread with a deleted one (`MCRecordingMonitor.cfg`).
* `MP_Close` while a registration ends may skip a terminal, which is then never released
  (`MCTerminalManagerClose.cfg`).
* `CIRCularBuffer::SetBufferLength` of a buffer with data moves the get pointer to the end
  of the data; no caller does this (`MCRingBufferResize.cfg`).
* When the next expected timestamp is 0, it is taken for "none yet", and a gap at this
  place is not filled with silence; a packet from before the wrap that comes after it is
  taken for one of the far future (`MCRtpTimelineWrap.cfg`, `MCRtpTimelineLate.cfg`).
* When the first packet after a loss is of a payload that is not G.711, the silence for the
  loss is counted in `m_uNextTimeStamp` but never written (`Streamer.cpp:147`), and what
  follows comes too early by that much (`MCRtpTimelineOther.cfg`).
* `hash_table_delete` without a comparison deletes the first entry of the hash: with two
  phones of equal hash the wrong one (`MCBinaryTreeCollide.cfg`).
* `cbOnUpdateSession` leaves `m_xSessionsParams` as it was (`SIPManager.cpp:312`); nothing
  reads it afterwards.

`PROJECT.json` quotes the lines that the findings of the runs disagree with, and lists
the others under the hazards.

## 6. Plan

Done, in this order: `SipManager` and `SipSessions`; `NotifyQueue`; `SipRegistry` and
`PhoneBook` with the composition with `SipSessions`; `TerminalManager`; `Recording`;
`RingBuffer` with `ByteQueue`, `BinaryTree`, `FreeBuffers`, `RtpTimeline`; and the proofs of
section 4.

Left:

1. Start and end of SIPLib (`sip_init`, `sip_destroy`), as far as it is defined.

## 7. Not modelled

* A callback of the reglament thread that is in flight while `MP_Close` deletes the
  terminal manager and the call manager uses freed memory; what it may do after that
  cannot be enumerated. `NotifyQueue` covers the one case that is defined, a thread
  already inside `Push`, and `TerminalManager` the deletion of a terminal before
  the manager is gone.
* A packet that refers to a terminal that is deleted meanwhile: `OnUDPPacket` takes no
  lock, and nothing keeps the terminal alive. `UseLive` is about events and API calls.
* A message bigger than the buffers, a failing `CreateThread`, `CreateEvent` or `malloc`.
* Calls of `MP_Open` on an open library, and of `MP_Close` on a closed one; a call of the
  notify thread's callback before `m_pCallEventsListener` is set.
* The order in which the reglament loop visits the slots.
* In the registry: torn reads of the time of an entry, and the iterators that nobody calls.
* In the terminal manager: two names with the same number, or an entry that vanishes
  without a report (then `m_xTerminalsByIP` may lead to a deleted terminal); the
  pointer that `MP_GetCallerID` returns after `Release`.
* In the recording: caller id, record time, the state of NSIP phones, gain control and
  codecs, the timestamps of G.722.
* Parsing of SIP, SDP and NEC bodies, value classes, settings, the dialog, logging: each
  handles one message or one value and keeps no state that a later step depends on.
* The capture loop and the sockets: input and output, of which the models have the
  packets that come.
* Third-party code: jrtp, the fake transmitter made from it (`RTPFakeTransmitter.cpp`), pcap, tinyxml,
  g722. They are most of the source tree, so that the models, which are about the
  recorder's own concurrent state, stand for a small share of all lines.
