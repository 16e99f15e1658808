---------------------------- MODULE BuffersProofs ----------------------------
(***************************************************************************)
(* The queue of notifications and the buffers for audio and memory, for    *)
(* all sizes and lengths.  In NotifyThread.cpp events keep their order and *)
(* no wakeup is lost, for any number of producers, detached or not, of     *)
(* events and of openings, whether or not the callback calls the API.  The *)
(* ring of IRCircularBuffer.cpp is the queue of the newest bytes that      *)
(* ByteQueue promises; RTPRecorderSession.cpp writes as much as the        *)
(* packets span; and in the buffers of mvi_malloc.c items, masks and lists *)
(* agree, so that a call fails only when it must.                          *)
(***************************************************************************)
EXTENDS NotifyQueue, RingBuffer, FreeBuffers, RtpTimeline, SequenceTheorems, FiniteSetTheorems,
        WellFoundedInduction, TLAPS

\* A set of numbers has a least one.
LEMMA Earliest ==
  ASSUME NEW S \in SUBSET Nat, S # {}
  PROVE  \E k \in S : \A j \in S : k <= j
<1>1. IsWellFoundedOn({ss \in Nat \X Nat : ss[1] < ss[2]}, Nat)
  BY NatLessThanWellFounded DEF OpToRel
<1>2. PICK x \in S : \A y \in S : ~ (<<y, x>> \in {ss \in Nat \X Nat : ss[1] < ss[2]})
  BY <1>1, WFMin
<1>3. ASSUME NEW y \in S PROVE x <= y
  <2>1. <<y, x>> \in Nat \X Nat /\ <<y, x>>[1] = y /\ <<y, x>>[2] = x
    OBVIOUS
  <2>2. ~ (y < x)
    BY <1>2, <2>1
  <2> QED  BY <2>2
<1> QED BY <1>2, <1>3

-----------------------------------------------------------------------------
(* The queue of notifications. *)

\* The places where the notify thread is after it has left its sleep: there it
\* looks at the queue again before it sleeps.
Draining == {"pop", "have", "call", "inside"}

\* The state event is clear before the thread has begun and after it has ended;
\* MP_Close goes on only when the thread is gone.  OneThread is what this says
\* of the closed library.
Lifecycle ==
  /\ thread \in Gone \cup {"begin"} => ~ running
  /\ api = "closeClear" \/ (api = "out" /\ ~ open) => thread \in Gone
  /\ api = "openWait" => open
  /\ api \notin {"out", "openWait"} => ~ open

\* NoLostWakeup, for every place from which the thread may fall asleep.
WakeupPending ==
  thread \notin Draining /\ queue # <<>>
    => ready \/ \E p \in Producers : producer[p] = "signal"

\* InOrder, and nothing was done that was not sent.
OrderInv == InOrder /\ done <= sent /\ hand <= sent

\* ClosedIsEmpty, and what the threads in the middle of a Push may still add.
BacklogBounded ==
  /\ ~ open => Pushing \subseteq Detached
  /\ api = "out" /\ ~ open => Len(queue) + Cardinality(Pushing) <= Cardinality(Detached)
  /\ sent + Cardinality(Pushing) <= MaxEvents

QueueInv == TypeOK /\ Lifecycle /\ WakeupPending /\ OrderInv /\ BacklogBounded

LEMMA PushingFinite ==
  /\ IsFiniteSet(Pushing) /\ Cardinality(Pushing) \in Nat
  /\ IsFiniteSet(Detached) /\ Cardinality(Detached) \in Nat
  /\ Pushing \subseteq Detached => Cardinality(Pushing) <= Cardinality(Detached)
<1>1. IsFiniteSet(Pushing) /\ IsFiniteSet(Detached)
  BY FS_Subset, NotifyAssumption DEF Pushing
<1> QED BY <1>1, FS_CardinalityType, FS_Subset

LEMMA InitIInv == Init => QueueInv
<1> SUFFICES ASSUME Init PROVE QueueInv
  OBVIOUS
<1> USE NotifyAssumption DEF Init
<1>1. TypeOK
  <2>1. queue \in Seq(1 .. MaxEvents)
    OBVIOUS
  <2>2. producer \in [Producers -> {"idle", "push", "signal"}]
    OBVIOUS
  <2>3. 0 \in 0 .. MaxEvents /\ 0 \in 0 .. MaxOpens
    OBVIOUS
  <2>4. thread \in ThreadPlaces /\ api \in ApiPlaces /\ thread \notin {"have", "call", "inside"}
    BY DEF ThreadPlaces, ApiPlaces
  <2> QED BY <2>1, <2>2, <2>3, <2>4 DEF TypeOK
<1>2. Lifecycle /\ WakeupPending
  BY DEF Lifecycle, WakeupPending, Gone
<1>3. OrderInv
  BY DEF OrderInv, InOrder
<1>4. BacklogBounded
  <2>1. Pushing = {} /\ Len(queue) = 0
    BY DEF Pushing
  <2> QED BY <2>1, FS_EmptySet, PushingFinite DEF BacklogBounded
<1> QED BY <1>1, <1>2, <1>3, <1>4 DEF QueueInv

-----------------------------------------------------------------------------
(* One lemma for each part of the invariant. *)

LEMMA StepTypeOK == QueueInv /\ [Next]_vars => TypeOK'
<1> SUFFICES ASSUME QueueInv, [Next]_vars PROVE TypeOK'
  OBVIOUS
<1> USE NotifyAssumption DEF QueueInv, TypeOK, ThreadPlaces, ApiPlaces, apiVars, queueVars,
        threadVars
<1>1. ASSUME NEW p \in Producers, BeginPush(p) PROVE TypeOK'
  BY <1>1 DEF BeginPush
<1>2. ASSUME NEW p \in Producers, Enqueue(p) PROVE TypeOK'
  <2>1. sent' \in 1 .. MaxEvents
    <3>1. p \in Pushing
      BY <1>2 DEF Enqueue, Pushing
    <3>2. Cardinality(Pushing) > 0
      BY <3>1, PushingFinite, FS_EmptySet
    <3> QED BY <1>2, <3>2, PushingFinite DEF Enqueue, BacklogBounded
  <2> QED BY <1>2, <2>1 DEF Enqueue
<1>3. ASSUME NEW p \in Producers, Signal(p) PROVE TypeOK'
  BY <1>3 DEF Signal
<1>4. CASE Begin \/ TestRunning \/ WakeForQueue \/ WakeForStop \/ Exit \/ Reset
  BY <1>4, ZenonT(60) DEF Begin, TestRunning, WakeForQueue, WakeForStop, Exit, Reset, Move
<1>5. CASE Pop
  <2>1. CASE queue # <<>>
    <3>1. Head(queue) \in 1 .. MaxEvents /\ Tail(queue) \in Seq(1 .. MaxEvents)
      <4>1. ASSUME NEW S, NEW q \in Seq(S), q # <<>>
            PROVE  Head(q) \in S /\ Tail(q) \in Seq(S)
        BY <4>1
      <4>2. queue \in Seq(1 .. MaxEvents)
        OBVIOUS
      <4> QED BY ONLY <4>1, <4>2, <2>1
    <3>2. /\ hand' \in 1 .. MaxEvents /\ queue' \in Seq(1 .. MaxEvents) /\ thread' = "have"
          /\ UNCHANGED <<ready, sent, stop, running, callback, done, apiVars, producer>>
      BY <1>5, <2>1, <3>1 DEF Pop, Move
    <3>3. hand' \in 0 .. MaxEvents /\ hand' # 0
      BY <3>2
    <3> QED BY <3>2, <3>3
  <2>2. CASE queue = <<>>
    BY <1>5, <2>2 DEF Pop, Move
  <2> QED BY <2>1, <2>2
<1>6. CASE TestCallback \/ Call \/ Return
  BY <1>6 DEF TestCallback, Call, Return, Move, Dispose
<1>7. CASE OpenStart
  BY <1>7 DEF OpenStart, Enter, Lifecycle, Gone
<1>8. CASE CloseProducers \/ OpenWait \/ CloseSignal \/ CloseTest \/ CloseReset \/ CloseWait
  <2>1. /\ api' \in ApiPlaces /\ open' \in BOOLEAN /\ stop' \in BOOLEAN /\ running' \in BOOLEAN
        /\ UNCHANGED <<queueVars, callback, threadVars, opens, producer>>
    BY <1>8 DEF CloseProducers, OpenWait, CloseSignal, CloseTest, CloseReset, CloseWait, Enter
  <2> QED BY <2>1
<1>9. CASE CloseClear
  BY <1>9 DEF CloseClear, Enter
<1>10. ASSUME NEW f \in BOOLEAN, SetCallback(f) PROVE TypeOK'
  BY <1>10 DEF SetCallback
<1>11. CASE UNCHANGED vars
  BY <1>11 DEF vars
<1> QED BY <1>1, <1>2, <1>3, <1>4, <1>5, <1>6, <1>7, <1>8, <1>9, <1>10, <1>11
        DEF Next, Produce, Notify, Application, InApi

LEMMA StepLifecycle == QueueInv /\ [Next]_vars => Lifecycle'
<1> SUFFICES ASSUME TypeOK, Lifecycle, [Next]_vars PROVE Lifecycle'
  BY DEF QueueInv
<1> USE DEF Lifecycle, TypeOK, ThreadPlaces, ApiPlaces, Gone, Move, Enter, apiVars,
        threadVars
<1>1. ASSUME NEW p \in Producers, Produce(p) PROVE Lifecycle'
  BY <1>1 DEF Produce, BeginPush, Enqueue, Signal
<1>2. CASE Begin \/ TestRunning \/ WakeForQueue \/ WakeForStop \/ Exit \/ Reset
  BY <1>2 DEF Begin, TestRunning, WakeForQueue, WakeForStop, Exit, Reset
<1>3. CASE Pop \/ TestCallback \/ Call \/ Return
  BY <1>3 DEF Pop, TestCallback, Call, Return
<1>4. CASE OpenStart \/ OpenWait
  BY <1>4 DEF OpenStart, OpenWait
<1>5. CASE CloseProducers \/ CloseSignal \/ CloseTest \/ CloseReset \/ CloseWait \/ CloseClear
  BY <1>5 DEF CloseProducers, CloseSignal, CloseTest, CloseReset, CloseWait, CloseClear
<1>6. ASSUME NEW f \in BOOLEAN, SetCallback(f) PROVE Lifecycle'
  BY <1>6 DEF SetCallback
<1>7. CASE UNCHANGED vars
  BY <1>7 DEF vars
<1> QED BY <1>1, <1>2, <1>3, <1>4, <1>5, <1>6, <1>7 DEF Next, Notify, Application, InApi

\* The event is set after the push, and oldest before the queue is drained.
LEMMA StepWakeup == QueueInv /\ [Next]_vars => WakeupPending'
<1> SUFFICES ASSUME TypeOK, WakeupPending, Lifecycle, [Next]_vars PROVE WakeupPending'
  BY DEF QueueInv
<1> USE DEF WakeupPending, Draining, TypeOK, ThreadPlaces, Move, apiVars, queueVars, threadVars
<1>1. ASSUME NEW p \in Producers, BeginPush(p) PROVE WakeupPending'
  BY <1>1 DEF BeginPush
<1>2. ASSUME NEW p \in Producers, Enqueue(p) PROVE WakeupPending'
  BY <1>2 DEF Enqueue
<1>3. ASSUME NEW p \in Producers, Signal(p) PROVE WakeupPending'
  BY <1>3 DEF Signal
<1>4. CASE Begin \/ TestRunning \/ WakeForQueue \/ WakeForStop \/ Exit \/ Reset
  BY <1>4 DEF Begin, TestRunning, WakeForQueue, WakeForStop, Exit, Reset
<1>5. CASE Pop \/ TestCallback \/ Call \/ Return
  BY <1>5 DEF Pop, TestCallback, Call, Return
<1>6. CASE OpenStart
  <2>1. thread \notin Draining
    BY <1>6 DEF OpenStart, Enter, Lifecycle, Gone
  <2>2. UNCHANGED <<queue, ready, producer>>
    BY <1>6 DEF OpenStart
  <2> QED BY <2>1, <2>2
<1>7. CASE CloseProducers \/ OpenWait \/ CloseSignal \/ CloseTest \/ CloseReset \/ CloseWait
  BY <1>7 DEF CloseProducers, OpenWait, CloseSignal, CloseTest, CloseReset, CloseWait
<1>8. CASE CloseClear
  BY <1>8 DEF CloseClear
<1>9. ASSUME NEW f \in BOOLEAN, SetCallback(f) PROVE WakeupPending'
  BY <1>9 DEF SetCallback
<1>10. CASE UNCHANGED vars
  BY <1>10 DEF vars
<1> QED BY <1>1, <1>2, <1>3, <1>4, <1>5, <1>6, <1>7, <1>8, <1>9, <1>10
        DEF Next, Produce, Notify, Application, InApi

\* The event in hand is the oldest one not done, the queue holds the others.
LEMMA StepOrder == QueueInv /\ [Next]_vars => OrderInv'
<1> SUFFICES ASSUME TypeOK, Lifecycle, OrderInv, [Next]_vars PROVE OrderInv'
  BY DEF QueueInv
<1> USE DEF OrderInv, InOrder
<1>1. ASSUME NEW p \in Producers, Enqueue(p) PROVE OrderInv'
  <2> DEFINE oldest == IF hand = 0 THEN done ELSE hand
  <2>1. /\ sent' = sent + 1 /\ queue' = Append(queue, sent + 1)
        /\ hand' = hand /\ done' = done
    BY <1>1 DEF Enqueue, threadVars
  <2>2. oldest \in Nat /\ sent \in Nat /\ oldest <= sent /\ hand \in Nat /\ done \in Nat
    BY NotifyAssumption DEF TypeOK
  <2>3. queue = [i \in 1 .. sent - oldest |-> oldest + i]
    OBVIOUS
  <2> HIDE DEF oldest
  <2>4. queue' = [i \in 1 .. (sent + 1) - oldest |-> oldest + i]
    <3>1. queue \in Seq(Nat) /\ Len(queue) = sent - oldest
      BY <2>2, <2>3
    <3>2. queue' \in Seq(Nat) /\ Len(queue') = (sent + 1) - oldest
      BY <2>1, <2>2, <3>1
    <3>3. \A i \in 1 .. (sent + 1) - oldest : queue'[i] = oldest + i
      <4> TAKE i \in 1 .. (sent + 1) - oldest
      <4>1. CASE i = Len(queue) + 1
        BY <2>1, <2>2, <3>1, <4>1
      <4>2. CASE i \in 1 .. Len(queue)
        <5>1. queue'[i] = queue[i]
          <6>1. ASSUME NEW q \in Seq(Nat), NEW x \in Nat, NEW j \in 1 .. Len(q)
                PROVE  Append(q, x)[j] = q[j]
            BY <6>1
          <6> QED BY <2>1, <2>2, <3>1, <4>2, <6>1
        <5> QED BY <5>1, <2>3, <3>1, <4>2
      <4> QED BY <4>1, <4>2, <2>2, <3>1
    <3> QED BY <3>2, <3>3
  <2> QED BY <2>1, <2>2, <2>4 DEF oldest
<1>2. CASE Pop
  <2>0. hand = 0 /\ done \in Nat /\ sent \in Nat
    BY <1>2, NotifyAssumption DEF Pop, Move, TypeOK
  <2>1. queue = [i \in 1 .. sent - done |-> done + i]
    BY <2>0
  <2>2. CASE queue # <<>>
    <3>1. hand' = Head(queue) /\ queue' = Tail(queue) /\ done' = done /\ sent' = sent
      BY <1>2, <2>2 DEF Pop
    <3>2. sent - done >= 1
      BY <2>0, <2>1, <2>2
    <3>3. Head(queue) = done + 1
      BY <2>0, <2>1, <3>2
    <3>4. Tail(queue) = [i \in 1 .. sent - (done + 1) |-> (done + 1) + i]
      BY <2>0, <2>1, <3>2
    <3> QED BY <2>0, <3>1, <3>2, <3>3, <3>4
  <2>3. CASE queue = <<>>
    BY <1>2, <2>3, <2>0 DEF Pop
  <2> QED BY <2>2, <2>3
<1>3. ASSUME hand # 0, Dispose, UNCHANGED queueVars PROVE OrderInv'
  BY <1>3 DEF Dispose, queueVars, TypeOK
<1>4. CASE TestCallback \/ Return
  BY <1>3, <1>4 DEF TestCallback, Return, Move, TypeOK, queueVars
<1>5. CASE CloseClear
  <2>1. hand = 0
    BY <1>5 DEF CloseClear, Enter, Lifecycle, Gone, TypeOK
  <2>2. queue' = <<>> /\ done' = sent /\ sent' = sent /\ hand' = 0 /\ sent \in Nat
    BY <1>5, <2>1, NotifyAssumption DEF CloseClear, TypeOK
  <2>3. sent - sent = 0
    BY <2>2
  <2>4. <<>> = [i \in 1 .. 0 |-> sent + i]
    OBVIOUS
  <2> QED BY <2>2, <2>3, <2>4
<1>6. ASSUME UNCHANGED <<queue, sent, hand, done>> PROVE OrderInv'
  BY <1>6
<1>7. ASSUME NEW p \in Producers, BeginPush(p) \/ Signal(p) PROVE OrderInv'
  BY <1>6, <1>7 DEF BeginPush, Signal, queueVars, threadVars
<1>8. CASE Begin \/ TestRunning \/ WakeForQueue \/ WakeForStop \/ Call \/ Exit \/ Reset
  BY <1>6, <1>8 DEF Begin, TestRunning, WakeForQueue, WakeForStop, Call, Exit, Reset, queueVars
<1>9. CASE \/ OpenStart \/ OpenWait \/ CloseProducers \/ CloseSignal \/ CloseTest \/ CloseReset
           \/ CloseWait
  BY <1>6, <1>9 DEF OpenStart, OpenWait, CloseProducers, CloseSignal, CloseTest, CloseReset,
     CloseWait, queueVars, threadVars
<1>10. ASSUME NEW f \in BOOLEAN, SetCallback(f) PROVE OrderInv'
  BY <1>6, <1>10 DEF SetCallback, queueVars, threadVars
<1>11. CASE UNCHANGED vars
  BY <1>6, <1>11 DEF vars, queueVars, threadVars
<1> QED BY <1>1, <1>2, <1>4, <1>5, <1>7, <1>8, <1>9, <1>10, <1>11
        DEF Next, Produce, Notify, Application, InApi

-----------------------------------------------------------------------------
LEMMA StepBacklog == QueueInv /\ [Next]_vars => BacklogBounded'
<1> SUFFICES ASSUME TypeOK, Lifecycle, BacklogBounded, [Next]_vars PROVE BacklogBounded'
  BY DEF QueueInv
<1> USE PushingFinite DEF BacklogBounded
<1>0. sent \in Nat /\ MaxEvents \in Nat /\ queue \in Seq(Int)
  BY NotifyAssumption DEF TypeOK
<1>1. ASSUME NEW p \in Producers, BeginPush(p) PROVE BacklogBounded'
  <2>1. /\ open /\ open' /\ p \notin Pushing /\ sent' = sent
        /\ sent + Cardinality(Pushing) < MaxEvents
    BY <1>1 DEF BeginPush, Pushing, queueVars, apiVars, TypeOK
  <2>2. Pushing' = Pushing \cup {p}
    BY <1>1 DEF BeginPush, Pushing, TypeOK
  <2>3. Cardinality(Pushing') = Cardinality(Pushing) + 1
    BY <2>1, <2>2, FS_AddElement
  <2> QED BY <1>0, <2>1, <2>3
<1>2. ASSUME NEW p \in Producers, Enqueue(p) PROVE BacklogBounded'
  <2>1. /\ p \in Pushing /\ sent' = sent + 1 /\ queue' = Append(queue, sent')
        /\ api' = api /\ open' = open
    BY <1>2 DEF Enqueue, Pushing, apiVars
  <2>2. Pushing' = Pushing \ {p}
    BY <1>2 DEF Enqueue, Pushing, TypeOK
  <2>3. Cardinality(Pushing') = Cardinality(Pushing) - 1
    BY <2>1, <2>2, FS_RemoveElement
  <2>4. Len(queue') = Len(queue) + 1
    BY <1>0, <2>1
  <2>5. ~ open' => Pushing' \subseteq Detached
    BY <2>1, <2>2
  <2>6. Len(queue) \in Nat
    BY <1>0
  <2> QED BY <1>0, <2>1, <2>3, <2>4, <2>5, <2>6
<1>3. ASSUME NEW p \in Producers, Signal(p) PROVE BacklogBounded'
  <2>1. Pushing' = Pushing
    BY <1>3 DEF Signal, Pushing, TypeOK
  <2> QED BY <1>3, <2>1 DEF Signal, apiVars
<1>4. ASSUME UNCHANGED <<producer, sent>>, open' = open,
             api' = "out" /\ ~ open => api = "out" /\ Len(queue') <= Len(queue)
      PROVE  BacklogBounded'
  <2>1. Pushing' = Pushing
    BY <1>4 DEF Pushing
  <2>2. Len(queue) \in Nat /\ Len(queue') \in Nat
    BY <1>0, <1>4
  <2> QED BY <1>4, <2>1, <2>2
<1>5. CASE Begin \/ TestRunning \/ WakeForQueue \/ WakeForStop \/ Call \/ Exit \/ Reset
  BY <1>4, <1>5 DEF Begin, TestRunning, WakeForQueue, WakeForStop, Call, Exit, Reset, queueVars,
     apiVars
<1>6. CASE Pop \/ TestCallback \/ Return
  <2>1. Len(queue') <= Len(queue)
    <3>1. CASE queue # <<>>
      <4>1. queue' = Tail(queue) \/ queue' = queue
        BY <1>6, <3>1 DEF Pop, TestCallback, Return, queueVars
      <4> QED BY <1>0, <3>1, <4>1
    <3>2. CASE queue = <<>>
      BY <1>0, <1>6, <3>2 DEF Pop, TestCallback, Return, queueVars
    <3> QED BY <3>1, <3>2
  <2>2. UNCHANGED <<producer, sent, api, open>>
    BY <1>6 DEF Pop, TestCallback, Return, apiVars, queueVars
  <2> QED BY <1>4, <2>1, <2>2
<1>7. CASE OpenStart
  <2>1. UNCHANGED <<producer, sent>> /\ open'
    BY <1>7 DEF OpenStart, queueVars
  <2>2. Pushing' = Pushing
    BY <2>1 DEF Pushing
  <2> QED BY <2>1, <2>2
<1>8. CASE CloseProducers
  <2>1. UNCHANGED <<producer, sent>> /\ api' # "out" /\ Pushing \subseteq Detached
    BY <1>8 DEF CloseProducers, Enter, queueVars, Pushing
  <2>2. Pushing' = Pushing
    BY <2>1 DEF Pushing
  <2> QED BY <2>1, <2>2
<1>9. CASE OpenWait \/ CloseSignal \/ CloseTest \/ CloseReset \/ CloseWait
  BY <1>4, <1>9 DEF OpenWait, CloseSignal, CloseTest, CloseReset, CloseWait, Enter, Lifecycle,
     queueVars
<1>10. CASE CloseClear
  <2>1. UNCHANGED <<producer, sent, open>> /\ queue' = <<>> /\ ~ open
    BY <1>10 DEF CloseClear, Enter, Lifecycle
  <2>2. Pushing' = Pushing /\ Len(queue') = 0
    BY <2>1 DEF Pushing
  <2> QED BY <2>1, <2>2
<1>11. ASSUME NEW f \in BOOLEAN, SetCallback(f) PROVE BacklogBounded'
  BY <1>4, <1>11, <1>0 DEF SetCallback, queueVars, apiVars
<1>12. CASE UNCHANGED vars
  BY <1>4, <1>12, <1>0 DEF vars, queueVars, apiVars
<1> QED BY <1>1, <1>2, <1>3, <1>5, <1>6, <1>7, <1>8, <1>9, <1>10, <1>11, <1>12
        DEF Next, Produce, Notify, Application, InApi

LEMMA AlwaysIInv == Spec => []QueueInv
<1>1. QueueInv /\ [Next]_vars => QueueInv'
  BY StepTypeOK, StepLifecycle, StepWakeup, StepOrder, StepBacklog DEF QueueInv
<1> QED BY InitIInv, <1>1, PTL DEF Spec

-----------------------------------------------------------------------------
\* Type correctness.
THEOREM TypeCorrect == Spec => []TypeOK
  BY AlwaysIInv, PTL DEF QueueInv

\* The callback gets the events of all producers once each, in the order in
\* which they entered the queue.
THEOREM EventsInOrder == Spec => []InOrder
<1>1. QueueInv => InOrder
  BY DEF QueueInv, OrderInv
<1> QED BY AlwaysIInv, <1>1, PTL

\* The notify thread never sleeps on an event nobody will wake it for.
THEOREM WakeupsNotLost == Spec => []NoLostWakeup
<1>1. QueueInv => NoLostWakeup
  BY DEF QueueInv, WakeupPending, Draining, NoLostWakeup
<1> QED BY AlwaysIInv, <1>1, PTL

\* While the library is closed there is no notify thread, whatever became of
\* the stop event.
THEOREM OneNotifyThread == Spec => []OneThread
<1>1. QueueInv => OneThread
  BY DEF QueueInv, Lifecycle, OneThread
<1> QED BY AlwaysIInv, <1>1, PTL

\* The closed library keeps at most one event for each detached thread.
THEOREM BacklogAfterClose == Spec => []ClosedIsEmpty
<1>1. QueueInv => ClosedIsEmpty
  <2> SUFFICES ASSUME QueueInv, api = "out", ~ open
               PROVE  hand = 0 /\ Len(queue) <= Cardinality(Detached)
    BY DEF ClosedIsEmpty
  <2>1. hand = 0
    BY DEF QueueInv, Lifecycle, TypeOK, Gone
  <2>2. Len(queue) \in Nat
    BY DEF QueueInv, TypeOK
  <2> QED BY <2>1, <2>2, PushingFinite DEF QueueInv, BacklogBounded
<1> QED BY AlwaysIInv, <1>1, PTL

\* The closed library has no notify thread, and at most one event for each
\* detached thread.
THEOREM QuietAfterClose == Spec => []ClosedIsQuiet
BY OneNotifyThread, BacklogAfterClose, PTL DEF ClosedIsQuiet
-----------------------------------------------------------------------------
(* The ring buffer. *)

\* A pointer that is moved by no more than the size stays in the ring.
LEMMA AfterInRing ==
  ASSUME size \in Nat \ {0}, NEW pos \in 0 .. size - 1, NEW n \in 0 .. size
  PROVE  /\ After(pos, n) \in 0 .. size - 1
         /\ After(pos, n) = pos + n \/ After(pos, n) = pos + n - size
  BY DEF After

LEMMA BlockLength ==
  ASSUME NEW block \in Blocks
  PROVE  block \in Seq(Bytes) /\ Len(block) \in Nat \ {0}
  BY RingAssumption, IsASeq DEF Blocks

\* What is in the ring after a block was copied are bytes.
LEMMA WrittenBytes ==
  ASSUME size \in Nat \ {0}, bytes \in [0 .. size - 1 -> Bytes],
         NEW pos \in 0 .. size - 1, NEW block \in Seq(Bytes), Len(block) \in 0 .. size
  PROVE  Written(pos, block) \in [0 .. size - 1 -> Bytes]
<1>1. \A i \in 0 .. size - 1 :
        (pos <= i /\ i < pos + Len(block)) => i - pos + 1 \in 1 .. Len(block)
  OBVIOUS
<1>2. \A i \in 0 .. size - 1 :
        i < Len(block) - (size - pos) => size - pos + i + 1 \in 1 .. Len(block)
  OBVIOUS
<1>3. \A k \in 1 .. Len(block) : block[k] \in Bytes
  OBVIOUS
<1> QED  BY <1>1, <1>2, <1>3 DEF Written

\* What is read from the ring are bytes.
LEMMA FromBytes ==
  ASSUME size \in Nat \ {0}, bytes \in [0 .. size - 1 -> Bytes],
         NEW pos \in 0 .. size - 1, NEW n \in 0 .. size
  PROVE  From(pos, n) \in [1 .. n -> Bytes]
  BY DEF From

-----------------------------------------------------------------------------
LEMMA InitRing == RingInit => RingOK
<1> SUFFICES ASSUME RingInit PROVE RingOK  OBVIOUS
<1> USE RingAssumption
<1> QED  BY DEF RingInit, RingOK, After

LEMMA AddDataRing ==
  ASSUME RingOK, NEW block \in Blocks, AddData(block)
  PROVE  RingOK'
<1> DEFINE n == Len(block)
           over == n + count - size
           drop == IF over > 0 THEN over ELSE 0
<1>1. size \in Nat \ {0} /\ size' = size
  BY RingAssumption DEF RingOK, AddData
<1>2. n \in Nat \ {0} /\ n <= size /\ block \in Seq(Bytes)
  BY BlockLength DEF AddData
<1>3. count \in 0 .. size /\ getPos \in 0 .. size - 1 /\ putPos \in 0 .. size - 1
  BY DEF RingOK
<1>4. n \in 0 .. size /\ drop \in 0 .. size /\ count - drop + n \in 0 .. size
  BY <1>1, <1>2, <1>3
<1>5. getPos' = After(getPos, drop) /\ putPos' = After(putPos, n)
      /\ count' = count - drop + n /\ bytes' = Written(putPos, block)
  BY DEF AddData
<1>6. bytes' \in [0 .. size - 1 -> Bytes]
  BY <1>1, <1>2, <1>3, <1>4, <1>5, WrittenBytes DEF RingOK
<1> HIDE DEF n
<1>7. getPos' \in 0 .. size - 1 /\ putPos' \in 0 .. size - 1
  BY <1>1, <1>3, <1>4, <1>5, AfterInRing
<1>8. putPos' = After(getPos', count')
  <2>1. putPos = After(getPos, count)
    BY DEF RingOK
  <2>2. drop = 0 \/ drop = n + count - size
    OBVIOUS
  <2> HIDE DEF drop
  <2>3. CASE drop = 0
    BY <2>1, <2>3, <1>1, <1>3, <1>4, <1>5 DEF After
  <2>4. CASE drop = n + count - size
    BY <2>1, <2>4, <1>1, <1>3, <1>4, <1>5 DEF After
  <2> QED  BY <2>2, <2>3, <2>4
<1>9. (putPos = After(getPos, count))' <=> putPos' = After(getPos', count')
  BY <1>1 DEF After
<1> QED  BY <1>1, <1>4, <1>5, <1>6, <1>7, <1>8, <1>9 DEF RingOK

LEMMA AddTooMuchRing ==
  ASSUME RingOK, NEW block \in Blocks, AddTooMuch(block)
  PROVE  RingOK'
<1> DEFINE rest == SubSeq(block, Len(block) - size + 1, Len(block))
<1>1. size \in Nat \ {0} /\ size' = size
  BY RingAssumption DEF RingOK, AddTooMuch
<1>2. block \in Seq(Bytes) /\ Len(block) \in Nat /\ Len(block) > size
  BY BlockLength DEF AddTooMuch
<1>3. rest \in Seq(Bytes) /\ Len(rest) = size
  BY <1>1, <1>2, SubSeqProperties
<1>4. 0 \in 0 .. size - 1 /\ Len(rest) \in 0 .. size
  BY <1>1, <1>3
<1>5. Written(0, rest) \in [0 .. size - 1 -> Bytes]
  <2> HIDE DEF rest
  <2> QED  BY <1>1, <1>3, <1>4, WrittenBytes DEF RingOK
<1>6. bytes' = Written(0, rest) /\ getPos' = 0 /\ putPos' = 0 /\ count' = size
  BY DEF AddTooMuch
<1> HIDE DEF rest
<1> QED  BY <1>1, <1>4, <1>5, <1>6 DEF RingOK, After

LEMMA GetDataRing ==
  ASSUME RingOK, NEW n \in 1 .. MaxBlock, NEW peek \in BOOLEAN, GetData(n, peek)
  PROVE  RingOK'
<1> DEFINE m == IF count > n THEN n ELSE count
<1>1. size \in Nat \ {0} /\ count \in 0 .. size /\ getPos \in 0 .. size - 1
  BY RingAssumption DEF RingOK
<1>2. m \in 0 .. count /\ m \in 0 .. size
  BY <1>1, RingAssumption
<1>3. UNCHANGED <<bytes, size, putPos>>
  BY DEF GetData
<1>4. CASE peek
  BY <1>3, <1>4 DEF GetData, RingOK, After
<1>5. CASE ~ peek
  <2>1. getPos' = After(getPos, m) /\ count' = count - m
    BY <1>5 DEF GetData
  <2> HIDE DEF m
  <2>2. getPos' \in 0 .. size - 1
    BY <1>1, <1>2, <2>1, AfterInRing
  <2>3. putPos = After(After(getPos, m), count - m)
    BY <1>1, <1>2 DEF RingOK, After
  <2>4. (putPos = After(getPos, count))' <=> putPos' = After(getPos', count')
    BY <1>3 DEF After
  <2> QED  BY <1>1, <1>2, <1>3, <2>1, <2>2, <2>3, <2>4 DEF RingOK
<1> QED  BY <1>4, <1>5

LEMMA SetBufferLengthRing ==
  ASSUME RingOK, NEW n \in Sizes, SetBufferLength(n), ~ ResizeFull
  PROVE  RingOK'
<1>1. count = 0 /\ n \in Nat \ {0} /\ size \in Nat \ {0}
  BY RingAssumption DEF SetBufferLength, RingOK
<1>2. size' = n /\ putPos' = 0 /\ getPos' = 0 /\ count' = 0
  BY <1>1 DEF SetBufferLength
<1>3. bytes' \in [0 .. n - 1 -> Bytes]
  BY <1>1 DEF SetBufferLength
<1> QED  BY <1>1, <1>2, <1>3 DEF RingOK, After

\* IRCircularBuffer.cpp: no call of AddData or GetData reads or writes outside
\* m_pData, whatever the lengths, where the buffer is resized only empty.
THEOREM RingAlwaysOK == ASSUME ~ ResizeFull PROVE RingSpec => []RingOK
<1>1. RingOK /\ [RingNext]_ringVars => RingOK'
  <2> SUFFICES ASSUME RingOK, [RingNext]_ringVars PROVE RingOK'
    OBVIOUS
  <2>1. ASSUME NEW block \in Blocks, AddData(block) PROVE RingOK'
    BY <2>1, AddDataRing
  <2>2. ASSUME NEW block \in Blocks, AddTooMuch(block) PROVE RingOK'
    BY <2>2, AddTooMuchRing
  <2>3. ASSUME NEW n \in 1 .. MaxBlock, NEW peek \in BOOLEAN, GetData(n, peek) PROVE RingOK'
    BY <2>3, GetDataRing
  <2>4. ASSUME NEW n \in Sizes, SetBufferLength(n) PROVE RingOK'
    BY <2>4, SetBufferLengthRing
  <2>5. CASE UNCHANGED ringVars
    BY <2>5 DEF ringVars, RingOK, After
  <2> QED  BY <2>1, <2>2, <2>3, <2>4, <2>5 DEF RingNext
<1> QED  BY <1>1, InitRing, PTL DEF RingSpec

-----------------------------------------------------------------------------
(* The ring as a queue. *)

Queue == From(getPos, count)

\* Where the i-th byte from pos on lies.
Place(pos, i) == IF i <= size - pos THEN pos + i - 1 ELSE i - (size - pos) - 1

LEMMA PlaceInRing ==
  ASSUME size \in Nat \ {0}, NEW pos \in 0 .. size - 1, NEW i \in 1 .. size
  PROVE  Place(pos, i) \in 0 .. size - 1
  BY DEF Place

\* The bytes read are those at their places.
LEMMA QueueIs ==
  ASSUME RingOK
  PROVE  /\ Queue \in Seq(Bytes) /\ Len(Queue) = count
         /\ Queue = [i \in 1 .. count |-> bytes[Place(getPos, i)]]
         /\ size \in Nat \ {0} /\ count \in 0 .. size
         /\ getPos \in 0 .. size - 1 /\ putPos \in 0 .. size - 1
         /\ putPos = After(getPos, count)
<1>1. /\ size \in Nat \ {0} /\ count \in 0 .. size /\ count \in Nat
      /\ getPos \in 0 .. size - 1 /\ putPos \in 0 .. size - 1
      /\ bytes \in [0 .. size - 1 -> Bytes] /\ putPos = After(getPos, count)
  BY RingAssumption DEF RingOK
<1>2. \A i \in 1 .. count : Place(getPos, i) \in 0 .. size - 1
  BY <1>1 DEF Place
<1>3. Queue = [i \in 1 .. count |-> bytes[Place(getPos, i)]]
  BY <1>1 DEF Queue, From, Place
<1>4. \A i \in 1 .. count : bytes[Place(getPos, i)] \in Bytes
  BY <1>1, <1>2
<1>5. Queue \in [1 .. count -> Bytes]
  BY <1>3, <1>4
<1>6. Queue \in Seq(Bytes) /\ Len(Queue) = count
  BY <1>1, <1>5
<1> QED  BY <1>1, <1>3, <1>6

LEMMA ReadBytes ==
  ASSUME NEW sz \in Nat \ {0}, NEW n \in 0 .. sz, NEW pos \in 0 .. sz - 1,
         NEW b \in [0 .. sz - 1 -> Bytes]
  PROVE  LET s == [i \in 1 .. n |-> IF i <= sz - pos THEN b[pos + i - 1]
                                                     ELSE b[i - (sz - pos) - 1]]
         IN  s \in Seq(Bytes) /\ Len(s) = n
<1> DEFINE s == [i \in 1 .. n |-> IF i <= sz - pos THEN b[pos + i - 1]
                                                   ELSE b[i - (sz - pos) - 1]]
<1>1. s \in [1 .. n -> Bytes]
  OBVIOUS
<1> QED  BY <1>1

LEMMA RingPartsNext ==
  RingOK' => /\ size' \in Nat \ {0}
             /\ count' \in 0 .. size'
             /\ getPos' \in 0 .. size' - 1
             /\ bytes' \in [0 .. size' - 1 -> Bytes]
<1>1. RingOK' => size' \in Sizes
  BY DEF RingOK
<1>2. RingOK' => count' \in 0 .. size'
  BY DEF RingOK
<1>3. RingOK' => getPos' \in 0 .. size' - 1
  BY DEF RingOK
<1>4. RingOK' => bytes' \in [0 .. size' - 1 -> Bytes]
  BY DEF RingOK
<1> QED  BY <1>1, <1>2, <1>3, <1>4, RingAssumption

LEMMA QueueIsNext ==
  RingOK' => /\ Queue' \in Seq(Bytes)
             /\ Len(Queue') = count'
             /\ size' = size =>
                  Queue' = [i \in 1 .. count' |-> bytes'[Place(getPos', i)]]
<1>2. Queue' = [i \in 1 .. count' |-> IF i <= size' - getPos' THEN bytes'[getPos' + i - 1]
                                        ELSE bytes'[i - (size' - getPos') - 1]]
  BY DEF Queue, From
<1>3. ASSUME RingOK' PROVE Queue' \in Seq(Bytes) /\ Len(Queue') = count'
  <2>1. size' \in Nat \ {0} /\ count' \in 0 .. size'
    BY <1>3, RingPartsNext
  <2>2. getPos' \in 0 .. size' - 1
    BY <1>3, RingPartsNext
  <2>3. bytes' \in [0 .. size' - 1 -> Bytes]
    BY <1>3, RingPartsNext
  <2> DEFINE sz == size'
             n == count'
             pos == getPos'
             b == bytes'
  <2>4. sz \in Nat \ {0} /\ n \in 0 .. sz
    BY <2>1
  <2>5. pos \in 0 .. sz - 1 /\ b \in [0 .. sz - 1 -> Bytes]
    BY <2>2, <2>3
  <2>6. Queue' = [i \in 1 .. n |-> IF i <= sz - pos THEN b[pos + i - 1]
                                                   ELSE b[i - (sz - pos) - 1]]
    BY <1>2
  <2> HIDE DEF sz, n, pos, b
  <2>7. Queue' \in Seq(Bytes) /\ Len(Queue') = n
    BY <2>4, <2>5, <2>6, ReadBytes
  <2> QED  BY <2>7 DEF n
<1>4. size' = size => Queue' = [i \in 1 .. count' |-> bytes'[Place(getPos', i)]]
  BY <1>2 DEF Place
<1> QED  BY <1>3, <1>4

\* A block of no more than the size is found again from where it was written.
LEMMA WrittenBlock ==
  ASSUME size \in Nat \ {0}, NEW pos \in 0 .. size - 1, NEW block,
         Len(block) \in 0 .. size, NEW i \in 1 .. Len(block)
  PROVE  Written(pos, block)[Place(pos, i)] = block[i]
<1> DEFINE n == Len(block)
<1>1. Place(pos, i) \in 0 .. size - 1
  BY DEF Place
<1> HIDE DEF n
<1>2. CASE i <= size - pos
  <2>1. Place(pos, i) = pos + i - 1
    BY <1>2 DEF Place
  <2>2. pos <= pos + i - 1 /\ pos + i - 1 < pos + Len(block) /\ pos + i - 1 - pos + 1 = i
    OBVIOUS
  <2> QED  BY <1>1, <2>1, <2>2 DEF Written
<1>3. CASE ~ (i <= size - pos)
  <2>1. Place(pos, i) = i - (size - pos) - 1
    BY <1>3 DEF Place
  <2>2. /\ ~ (pos <= i - (size - pos) - 1)
        /\ i - (size - pos) - 1 < Len(block) - (size - pos)
        /\ size - pos + (i - (size - pos) - 1) + 1 = i
    BY <1>3
  <2> QED  BY <1>1, <2>1, <2>2 DEF Written
<1> QED  BY <1>2, <1>3

\* The bytes before it are not touched.
LEMMA WrittenElsewhere ==
  ASSUME size \in Nat \ {0}, NEW pos \in 0 .. size - 1, NEW len \in 0 .. size, NEW block,
         Len(block) \in 0 .. size, NEW i \in 1 .. len, i > Len(block) + len - size
  PROVE  Written(After(pos, len), block)[Place(pos, i)] = bytes[Place(pos, i)]
<1>1. Place(pos, i) \in 0 .. size - 1
  BY DEF Place
<1>2. ~ (After(pos, len) <= Place(pos, i) /\ Place(pos, i) < After(pos, len) + Len(block))
  BY DEF Place, After
<1>3. ~ (Place(pos, i) < Len(block) - (size - After(pos, len)))
  BY DEF Place, After
<1> QED  BY <1>1, <1>2, <1>3 DEF Written

\* What Newest gives, place by place.
LEMMA NewestIs ==
  ASSUME NEW q \in Seq(Bytes), NEW block \in Seq(Bytes), NEW room \in Nat
  PROVE  LET all == Len(q) + Len(block)
             k == IF all <= room THEN all ELSE room
             new == Abstract!Newest(q \o block, room)
         IN  /\ new \in Seq(Bytes) /\ Len(new) = k
             /\ \A i \in 1 .. k : new[i] = IF all - k + i <= Len(q) THEN q[all - k + i]
                                             ELSE block[all - k + i - Len(q)]
<1> DEFINE all == Len(q) + Len(block)
           k == IF all <= room THEN all ELSE room
           s == q \o block
<1>1. /\ s \in Seq(Bytes) /\ Len(s) = all
      /\ \A i \in 1 .. all : s[i] = IF i <= Len(q) THEN q[i] ELSE block[i - Len(q)]
  BY ConcatProperties
<1>2. all \in Nat /\ k \in 0 .. all
  OBVIOUS
<1>3. Abstract!Newest(s, room) = SubSeq(s, all - k + 1, all)
  BY <1>1 DEF Abstract!Newest, Abstract!Least
<1> HIDE DEF s, all, k
<1>4. \A i \in all - k + 1 .. all : s[i] \in Bytes
  BY <1>1, <1>2
<1>5. /\ SubSeq(s, all - k + 1, all) \in Seq(Bytes)
      /\ Len(SubSeq(s, all - k + 1, all)) = IF all - k + 1 <= all THEN all - (all - k + 1) + 1 ELSE 0
      /\ \A i \in 1 .. all - (all - k + 1) + 1 :
           SubSeq(s, all - k + 1, all)[i] = s[all - k + 1 + i - 1]
  BY <1>2, <1>4, SubSeqProperties
<1>6. Len(SubSeq(s, all - k + 1, all)) = k
  BY <1>2, <1>5
<1>7. ASSUME NEW i \in 1 .. k
      PROVE  SubSeq(s, all - k + 1, all)[i] = IF all - k + i <= Len(q) THEN q[all - k + i]
                                              ELSE block[all - k + i - Len(q)]
  BY <1>1, <1>2, <1>5
<1> QED  BY <1>3, <1>5, <1>6, <1>7 DEF s, all, k

-----------------------------------------------------------------------------
(* Every call is a step of the queue. *)

LEMMA AddDataPut ==
  ASSUME RingOK, NEW block \in Blocks, AddData(block)
  PROVE  Abstract!Put(block)
<1> DEFINE n == Len(block)
           all == n + count
           drop == IF all - size > 0 THEN all - size ELSE 0
           new == Abstract!Newest(Queue \o block, size)
<1>1. n \in Nat \ {0} /\ n <= size /\ block \in Seq(Bytes)
  BY BlockLength DEF AddData
<1>2. RingOK'
  BY AddDataRing
<1>3. /\ Queue \in Seq(Bytes) /\ Len(Queue) = count
      /\ size \in Nat \ {0} /\ count \in 0 .. size
      /\ getPos \in 0 .. size - 1 /\ putPos \in 0 .. size - 1
      /\ putPos = After(getPos, count)
  BY QueueIs
<1>4. \A i \in 1 .. count : Queue[i] = bytes[Place(getPos, i)]
  BY QueueIs
<1>5. /\ size' = size /\ taken' = <<>> /\ count' = all - drop
      /\ getPos' = After(getPos, drop) /\ bytes' = Written(putPos, block)
  <2>1. /\ size' = size /\ taken' = <<>> /\ count' = count - drop + n
        /\ getPos' = After(getPos, drop) /\ bytes' = Written(putPos, block)
    <3>1. n + count - size = all - size
      BY <1>1, <1>3
    <3>2. drop = IF n + count - size > 0 THEN n + count - size ELSE 0
      BY <3>1
    <3> HIDE DEF drop
    <3> QED  BY <3>2 DEF AddData
  <2>2. n \in Int /\ count \in Int /\ all = n + count /\ drop \in Int
    BY <1>1, <1>3
  <2> HIDE DEF n, all, drop
  <2> QED  BY <2>1, <2>2
<1>6. /\ Queue' \in Seq(Bytes) /\ Len(Queue') = count'
      /\ Queue' = [i \in 1 .. count' |-> bytes'[Place(getPos', i)]]
  BY <1>2, <1>5, QueueIsNext
<1>7. drop \in 0 .. count /\ all - drop \in 0 .. size /\ drop \in 0 .. size
      /\ all \in Nat /\ (drop = 0 \/ drop = all - size)
      /\ all - drop = (IF all <= size THEN all ELSE size)
  <2>1. n \in Nat /\ n <= size /\ all = n + count
    BY <1>1
  <2> HIDE DEF n, all
  <2>2. CASE all - size > 0
    BY <1>3, <2>1, <2>2
  <2>3. CASE ~ (all - size > 0)
    BY <1>3, <2>1, <2>3
  <2> QED  BY <2>2, <2>3
<1>8. /\ new \in Seq(Bytes) /\ Len(new) = all - drop
      /\ \A i \in 1 .. all - drop : new[i] = IF drop + i <= count THEN Queue[drop + i]
                                             ELSE block[drop + i - count]
  <2> DEFINE len == Len(Queue) + Len(block)
             k == IF len <= size THEN len ELSE size
  <2>1. block \in Seq(Bytes) /\ size \in Nat
    BY <1>1, <1>3
  <2>2. /\ new \in Seq(Bytes) /\ Len(new) = k
        /\ \A i \in 1 .. k : new[i] = IF len - k + i <= Len(Queue) THEN Queue[len - k + i]
                                       ELSE block[len - k + i - Len(Queue)]
    BY <1>3, <2>1, NewestIs
  <2>3. len = all /\ n \in Nat
    BY <1>1, <1>3
  <2> HIDE DEF new, all, drop, n
  <2>4. k = all - drop
    BY <1>7, <2>3
  <2> HIDE DEF len, k
  <2>5. len - k = drop
    BY <1>7, <2>3, <2>4
  <2> QED  BY <1>3, <2>2, <2>3, <2>4, <2>5
<1> HIDE DEF n, all, drop, new
<1>9. ASSUME NEW i \in 1 .. all - drop
      PROVE  bytes'[Place(getPos', i)] = new[i]
  <2>1. CASE drop + i <= count
    <3>1. Place(getPos', i) = Place(getPos, drop + i)
      BY <1>3, <1>5, <1>7, <2>1 DEF Place, After
    <3>2. drop + i \in 1 .. count /\ drop + i > n + count - size
      BY <1>1, <1>3, <1>7, <2>1 DEF all
    <3>3. bytes'[Place(getPos, drop + i)] = bytes[Place(getPos, drop + i)]
      <4>1. Len(block) \in 0 .. size /\ drop + i > Len(block) + count - size
        BY <1>1, <1>3, <3>2 DEF n
      <4>2. Written(After(getPos, count), block)[Place(getPos, drop + i)]
              = bytes[Place(getPos, drop + i)]
        BY <1>3, <3>2, <4>1, WrittenElsewhere
      <4> QED  BY <1>3, <1>5, <4>2
    <3> QED  BY <1>4, <1>8, <2>1, <3>1, <3>2, <3>3
  <2>2. CASE ~ (drop + i <= count)
    <3>1. drop + i - count \in 1 .. n
      BY <1>1, <1>3, <1>7, <2>2 DEF all
    <3>2. Place(getPos', i) = Place(putPos, drop + i - count)
      BY <1>1, <1>3, <1>5, <1>7, <2>2, <3>1 DEF Place, After, all
    <3>3. bytes'[Place(putPos, drop + i - count)] = block[drop + i - count]
      <4>1. n \in 0 .. size /\ Len(block) = n
        BY <1>1, <1>3 DEF n
      <4> QED  BY <1>3, <1>5, <3>1, <4>1, WrittenBlock
    <3> QED  BY <1>8, <2>2, <3>2, <3>3
  <2> QED  BY <2>1, <2>2
<1>10. \A i \in 1 .. all - drop : Queue'[i] = new[i]
  BY <1>5, <1>6, <1>9
<1>11. Queue' = new
  BY <1>5, <1>6, <1>8, <1>10, SeqEqual
<1> QED  BY <1>5, <1>11 DEF Abstract!Put, new, Queue

LEMMA AddTooMuchPut ==
  ASSUME RingOK, NEW block \in Blocks, AddTooMuch(block)
  PROVE  Abstract!Put(block)
<1> DEFINE n == Len(block)
           rest == SubSeq(block, n - size + 1, n)
           new == Abstract!Newest(Queue \o block, size)
<1>1. n \in Nat \ {0} /\ n > size /\ block \in Seq(Bytes)
  BY BlockLength DEF AddTooMuch
<1>2. RingOK'
  BY AddTooMuchRing
<1>3. /\ Queue \in Seq(Bytes) /\ Len(Queue) = count
      /\ size \in Nat \ {0} /\ count \in 0 .. size
  BY QueueIs
<1>4. /\ size' = size /\ taken' = <<>> /\ count' = size /\ getPos' = 0
      /\ bytes' = Written(0, rest)
  BY DEF AddTooMuch
<1>5. /\ Queue' \in Seq(Bytes) /\ Len(Queue') = size
      /\ Queue' = [i \in 1 .. size |-> bytes'[Place(0, i)]]
  BY <1>2, <1>4, QueueIsNext
<1>6. rest \in Seq(Bytes) /\ Len(rest) = size
      /\ \A i \in 1 .. size : rest[i] = block[n - size + i]
  BY <1>1, <1>3, SubSeqProperties
<1>7. /\ new \in Seq(Bytes) /\ Len(new) = size
      /\ \A i \in 1 .. size : new[i] = block[n - size + i]
  <2>1. count + n > size /\ count + n \in Nat /\ size \in Nat
    BY <1>1, <1>3
  <2>2. \A i \in 1 .. size : /\ ~ (count + n - size + i <= count)
                             /\ count + n - size + i - count = n - size + i
    BY <1>1, <1>3
  <2> HIDE DEF new
  <2>3. /\ new \in Seq(Bytes) /\ Len(new) = size
        /\ \A i \in 1 .. size :
             new[i] = IF count + n - size + i <= count THEN Queue[count + n - size + i]
                      ELSE block[count + n - size + i - count]
    <3> DEFINE len == Len(Queue) + Len(block)
               k == IF len <= size THEN len ELSE size
    <3>1. /\ new \in Seq(Bytes) /\ Len(new) = k
          /\ \A i \in 1 .. k : new[i] = IF len - k + i <= Len(Queue) THEN Queue[len - k + i]
                                         ELSE block[len - k + i - Len(Queue)]
      BY <1>1, <1>3, <2>1, NewestIs, ZenonT(30) DEF new
    <3>2. k = size /\ len = count + n
      BY <1>3, <2>1
    <3> HIDE DEF len, k
    <3> QED  BY <1>3, <3>1, <3>2
  <2> QED  BY <2>2, <2>3
<1> HIDE DEF n, rest, new
<1>8. ASSUME NEW i \in 1 .. size PROVE Queue'[i] = new[i]
  <2>1. Len(rest) \in 0 .. size /\ i \in 1 .. Len(rest) /\ 0 \in 0 .. size - 1
    BY <1>3, <1>6
  <2>2. Written(0, rest)[Place(0, i)] = rest[i]
    BY <1>3, <2>1, WrittenBlock
  <2> QED  BY <1>4, <1>5, <1>6, <1>7, <2>2
<1>9. Queue' = new
  BY <1>5, <1>7, <1>8, SeqEqual
<1> QED  BY <1>4, <1>9 DEF Abstract!Put, new, Queue

LEMMA GetDataTake ==
  ASSUME RingOK, NEW n \in 1 .. MaxBlock, NEW peek \in BOOLEAN, GetData(n, peek)
  PROVE  Abstract!Take(n, peek)
<1> DEFINE m == IF count > n THEN n ELSE count
           first == SubSeq(Queue, 1, m)
           others == SubSeq(Queue, m + 1, count)
<1>1. /\ Queue \in Seq(Bytes) /\ Len(Queue) = count
      /\ Queue = [i \in 1 .. count |-> bytes[Place(getPos, i)]]
      /\ size \in Nat \ {0} /\ count \in 0 .. size /\ getPos \in 0 .. size - 1
  BY QueueIs
<1>2. RingOK'
  BY GetDataRing
<1>3. m \in 0 .. count /\ m \in Nat /\ count \in Nat
  BY <1>1, RingAssumption
<1>4. m = Abstract!Least(n, Len(Queue))
  BY <1>1, RingAssumption DEF Abstract!Least
<1>5. UNCHANGED <<bytes, size>> /\ taken' = From(getPos, m)
  BY DEF GetData
<1> HIDE DEF m
<1>6. \A i \in 1 .. count : Queue[i] \in Bytes
  BY <1>1
<1>7. first \in Seq(Bytes) /\ Len(first) = m /\ \A i \in 1 .. m : first[i] = Queue[i]
  BY <1>1, <1>3, <1>6, SubSeqProperties
<1>8. /\ others \in Seq(Bytes) /\ Len(others) = count - m
      /\ \A i \in 1 .. count - m : others[i] = Queue[m + i]
  BY <1>1, <1>3, <1>6, SubSeqProperties
<1> HIDE DEF first, others
<1>9. taken' = first
  <2>1. From(getPos, m) = [i \in 1 .. m |-> bytes[Place(getPos, i)]]
    BY DEF From, Place
  <2>2. first = [i \in 1 .. m |-> first[i]]
    BY <1>7, LenProperties
  <2>3. \A i \in 1 .. m : first[i] = bytes[Place(getPos, i)]
    BY <1>1, <1>3, <1>7
  <2> QED  BY <1>5, <2>1, <2>2, <2>3
<1>10. ASSUME ~ peek PROVE Queue' = others
  <2>1. getPos' = After(getPos, m) /\ count' = count - m
    BY <1>10 DEF GetData, m
  <2>2. /\ Queue' \in Seq(Bytes) /\ Len(Queue') = count - m
        /\ Queue' = [i \in 1 .. count - m |-> bytes[Place(After(getPos, m), i)]]
    BY <1>2, <1>5, <2>1, QueueIsNext
  <2>3. ASSUME NEW i \in 1 .. count - m
        PROVE  Place(After(getPos, m), i) = Place(getPos, m + i)
    BY <1>1, <1>3 DEF Place, After
  <2>4. ASSUME NEW i \in 1 .. count - m PROVE Queue'[i] = others[i]
    <3>1. m + i \in 1 .. count
      BY <1>3
    <3> QED  BY <1>1, <1>8, <2>2, <2>3, <3>1, SMTT(30)
  <2> QED  BY <1>8, <2>2, <2>4, SeqEqual
<1>11. ASSUME peek PROVE Queue' = Queue
  BY <1>5, <1>11 DEF GetData, Queue, From
<1> QED  BY <1>1, <1>4, <1>5, <1>9, <1>10, <1>11 DEF Abstract!Take, first, others, Queue

LEMMA SetBufferLengthResize ==
  ASSUME RingOK, NEW n \in Sizes, SetBufferLength(n), ~ ResizeFull
  PROVE  Abstract!Resize(n)
<1>1. count = 0 /\ n \in Nat
  BY RingAssumption DEF SetBufferLength
<1>2. size' = n /\ count' = 0 /\ taken' = <<>>
  BY <1>1 DEF SetBufferLength
<1>3. Queue = <<>>
  BY <1>1 DEF Queue, From
<1>4. Queue' = <<>>
  BY <1>2 DEF Queue, From
<1>5. Abstract!Newest(<<>>, n) = <<>>
  BY <1>1, EmptySeq, SubSeqEmpty DEF Abstract!Newest, Abstract!Least
<1> QED  BY <1>2, <1>3, <1>4, <1>5 DEF Abstract!Resize, Queue

\* IRCircularBuffer.cpp: however the calls cross the end of m_pData, the ring is
\* the queue of the newest bytes.
THEOREM RingIsQueue == ASSUME ~ ResizeFull PROVE RingSpec => ImplementsQueue
<1>1. RingInit => Abstract!QInit
  BY DEF RingInit, Abstract!QInit, From
<1>2. RingOK /\ [RingNext]_ringVars => [Abstract!QNext]_<<From(getPos, count), size, taken>>
  <2> SUFFICES ASSUME RingOK, [RingNext]_ringVars
               PROVE  [Abstract!QNext]_<<From(getPos, count), size, taken>>
    OBVIOUS
  <2>1. ASSUME NEW block \in Blocks, AddData(block) \/ AddTooMuch(block)
        PROVE  Abstract!QNext
    BY <2>1, AddDataPut, AddTooMuchPut DEF Abstract!QNext, Abstract!Blocks, Blocks
  <2>2. ASSUME NEW n \in 1 .. MaxBlock, NEW peek \in BOOLEAN, GetData(n, peek)
        PROVE  Abstract!QNext
    BY <2>2, GetDataTake DEF Abstract!QNext
  <2>3. ASSUME NEW n \in Sizes, SetBufferLength(n)
        PROVE  Abstract!QNext
    BY <2>3, SetBufferLengthResize DEF Abstract!QNext
  <2>4. CASE UNCHANGED ringVars
    BY <2>4 DEF ringVars, From
  <2> QED  BY <2>1, <2>2, <2>3, <2>4 DEF RingNext
<1>3. RingSpec => []RingOK
  BY RingAlwaysOK
<1> QED  BY <1>1, <1>2, <1>3, PTL DEF RingSpec, ImplementsQueue, Abstract!QSpec

-----------------------------------------------------------------------------
(* The timeline of a recording. *)

\* Timestamp 0 is taken for "none yet" (m_uNextTimeStamp of a new session).
NoZero == \A s \in Starts : \A k \in 0 .. MaxSent : (s + k * Samples) % Width # 0

\* What was written is of the packets before nextTs: of m of them from the first
\* on, no more than the packets span.  All are written if all are audio.
LineIs(f, l, m) ==
  /\ f \in Nat /\ l \in Nat /\ m \in Nat
  /\ handled = <<f, l>>
  /\ f + m <= l + 1 /\ l < packets
  /\ written \in 0 .. m * Samples /\ nextTs = Ts(f + m)
  /\ other = {} => written = m * Samples
  /\ \A k \in arrived : k > l

LineInv ==
  /\ start \in Starts /\ packets \in 0 .. MaxSent
  /\ arrived \subseteq 0 .. packets - 1 /\ delayed \subseteq 0 .. packets - 1
  /\ \/ handled = <<>> /\ nextTs = 0 /\ written = 0
     \/ \E f, l, m \in Nat : LineIs(f, l, m)

LEMMA ModIs ==
  \A w \in Nat \ {0} : \A x \in Nat : x < 2 * w => x % w = IF x < w THEN x ELSE x - w
<1> SUFFICES ASSUME NEW w \in Nat \ {0}, NEW x \in Nat, x < 2 * w
             PROVE  x % w = IF x < w THEN x ELSE x - w
  OBVIOUS
<1>1. CASE x < w
  BY <1>1
<1>2. CASE x >= w
  BY <1>2
<1> QED  BY <1>1, <1>2

\* Packets and their samples.
LEMMA SamplesOf ==
  ASSUME NEW i \in Nat, NEW j \in Nat, i <= j, j <= MaxSent
  PROVE  /\ i * Samples \in Nat /\ j * Samples \in Nat
         /\ j * Samples - i * Samples = (j - i) * Samples
         /\ i * Samples <= j * Samples
         /\ i # j => i * Samples < j * Samples
         /\ 2 * (j * Samples) < Width
<1>1. Samples \in Nat \ {0} /\ MaxSent \in Nat /\ Width \in Nat /\ 2 * Samples * MaxSent < Width
  BY RtpAssumption
<1>2. \A p, q, s \in Nat : p <= q => p * s <= q * s
  OBVIOUS
<1>3. \A p, q \in Nat, s \in Nat \ {0} : p < q => p * s < q * s
  OBVIOUS
<1>4. (j - i) * Samples = j * Samples - i * Samples
  BY <1>1
<1>5. j * Samples <= MaxSent * Samples /\ MaxSent * Samples = Samples * MaxSent
  BY <1>1, <1>2
<1>6. 2 * Samples * MaxSent = 2 * (Samples * MaxSent)
  BY <1>1
<1>7. i * Samples \in Nat /\ j * Samples \in Nat /\ Samples * MaxSent \in Nat
  BY <1>1
<1> QED  BY <1>1, <1>2, <1>3, <1>4, <1>5, <1>6, <1>7

\* Two timestamps of packets that are no further apart than MaxSent: how they
\* compare says which of them is first, or that they wrap.
LEMMA TimesOf ==
  ASSUME start \in Starts, NEW j \in Nat, NEW k \in Nat, j <= k, k <= MaxSent
  PROVE  /\ Ts(j) \in 0 .. Width - 1 /\ Ts(k) \in 0 .. Width - 1
         /\ Ts(j) < Ts(k) => /\ Ts(k) - Ts(j) = (k - j) * Samples
                             /\ 2 * (Ts(k) - Ts(j)) < Width
         /\ Ts(j) = Ts(k) => j = k
<1> DEFINE a == start + j * Samples
           b == start + k * Samples
<1>1. /\ Width \in Nat \ {0} /\ start \in Nat /\ start < Width
      /\ j * Samples \in Nat /\ k * Samples \in Nat
      /\ j * Samples <= k * Samples /\ 2 * (k * Samples) < Width
      /\ k * Samples - j * Samples = (k - j) * Samples
      /\ j # k => j * Samples < k * Samples
  BY RtpAssumption, SamplesOf
<1>2. a \in Nat /\ b \in Nat /\ a < 2 * Width /\ b < 2 * Width
  BY <1>1
<1>3. /\ a % Width = IF a < Width THEN a ELSE a - Width
      /\ b % Width = IF b < Width THEN b ELSE b - Width
  BY <1>1, <1>2, ModIs
<1>4. Ts(j) = a % Width /\ Ts(k) = b % Width
  BY DEF Ts
<1> QED  BY <1>1, <1>2, <1>3, <1>4

LEMMA ModPlus ==
  ASSUME NEW w \in Nat \ {0}, NEW x \in Nat, NEW s \in Nat,
         x + s < 2 * w, x >= w => x + s - w < w
  PROVE  ((x % w) + s) % w = (x + s) % w
<1>1. x % w = IF x < w THEN x ELSE x - w
  <2>1. x < 2 * w
    OBVIOUS
  <2> QED  BY <2>1, ModIs, Zenon
<1>2. CASE x < w
  BY <1>1, <1>2
<1>3. CASE x >= w
  <2>1. x - w + s \in Nat /\ x - w + s < 2 * w /\ x + s \in Nat
    BY <1>3
  <2>2. (x - w + s) % w = x - w + s
    BY <1>3, <2>1
  <2>3. (x + s) % w = x + s - w
    <3> DEFINE z == x + s
    <3>1. z \in Nat /\ z < 2 * w /\ z >= w
      BY <1>3
    <3> HIDE DEF z
    <3>2. z % w = IF z < w THEN z ELSE z - w
      BY <3>1, ModIs, Zenon
    <3>3. z % w = z - w
      BY <3>1, <3>2
    <3> QED  BY <3>3 DEF z
  <2> QED  BY <1>1, <1>3, <2>2, <2>3
<1> QED  BY <1>2, <1>3

\* After a packet comes the next.
LEMMA NextTime ==
  ASSUME start \in Starts, NEW k \in Nat, k < MaxSent
  PROVE  (Ts(k) + Samples) % Width = Ts(k + 1)
<1> DEFINE x == start + k * Samples
<1>1. /\ Width \in Nat \ {0} /\ start \in Nat /\ start < Width /\ Samples \in Nat
      /\ k * Samples \in Nat /\ (k + 1) * Samples = k * Samples + Samples
      /\ 2 * ((k + 1) * Samples) < Width
  BY RtpAssumption, SamplesOf
<1>2. /\ x \in Nat /\ x + Samples < 2 * Width
      /\ x >= Width => x + Samples - Width < Width
      /\ start + (k + 1) * Samples = x + Samples
  BY <1>1
<1>3. Ts(k) = x % Width /\ Ts(k + 1) = (x + Samples) % Width
  BY <1>2 DEF Ts
<1> HIDE DEF x
<1> QED  BY <1>1, <1>2, <1>3, ModPlus

\* A timestamp is less than the width.
LEMMA TimeSame ==
  ASSUME start \in Starts, NEW k \in Nat, k <= MaxSent
  PROVE  Ts(k) % Width = Ts(k) /\ Ts(k) \in Nat
<1>1. Ts(k) \in 0 .. Width - 1 /\ Width \in Nat \ {0}
  BY RtpAssumption, TimesOf
<1> DEFINE x == Ts(k)
<1>2. x \in Nat /\ x < 2 * Width /\ x < Width
  BY <1>1
<1> HIDE DEF x
<1>3. x % Width = IF x < Width THEN x ELSE x - Width
  BY <1>1, <1>2, ModIs, Zenon
<1>4. x % Width = x
  BY <1>2, <1>3
<1> QED  BY <1>2, <1>4 DEF x

\* What has been written of the packets before a packet, and what is with it: a
\* line goes on, with n packets from the first.
LineGoesOn(f, k, n) ==
  /\ n \in Nat /\ f + n <= k + 1
  /\ written' \in 0 .. n * Samples /\ nextTs' = Ts(f + n)
  /\ other = {} => written' = n * Samples

\* A packet that comes after the last one that was written.
LEMMA PacketWritten ==
  ASSUME NoZero, LineInv, NEW k \in Nat, k < packets, OnPacket(k),
         NEW f \in Nat, NEW l \in Nat, NEW m \in Nat, LineIs(f, l, m), k > l
  PROVE  \E n \in Nat : /\ LineGoesOn(f, k, n)
                        /\ other = {} /\ nextTs <= Ts(k) => f + n = k + 1
<1> DEFINE j == f + m
<1>1. /\ start \in Starts /\ packets \in Nat /\ packets <= MaxSent /\ MaxSent \in Nat
      /\ j \in Nat /\ j <= k /\ k < MaxSent /\ j \in 0 .. MaxSent
      /\ nextTs = Ts(j) /\ written \in Nat /\ written <= m * Samples
      /\ other = {} => written = m * Samples
  BY RtpAssumption DEF LineInv, LineIs
<1>2. nextTs # 0
  BY <1>1 DEF NoZero, Ts
<1>3. Samples \in Nat /\ Width \in Nat \ {0} /\ Starts \subseteq 0 .. Width - 1
  BY RtpAssumption
<1>4. /\ written' = written + Laid(k, Gap(k))
      /\ nextTs' = (Ts(j) + Gap(k) + Decoded(k)) % Width
  BY <1>1, <1>2 DEF OnPacket
<1>5. Ts(j) \in Nat /\ Ts(k) \in Nat
  BY <1>1, <1>3, TimesOf
<1>6. CASE Ts(j) < Ts(k)
  <2>1. Ts(k) - Ts(j) = (k - j) * Samples /\ 2 * (Ts(k) - Ts(j)) < Width
    BY <1>1, <1>3, <1>6, TimesOf
  <2>2. Gap(k) = (k - j) * Samples /\ Silence(Gap(k)) = (k - j) * Samples /\ Ts(j) + Gap(k) = Ts(k)
    <3>1. Gap(k) = Ts(k) - Ts(j)
      BY <1>1, <1>2, <1>6 DEF Gap
    <3> QED  BY <1>5, <2>1, <3>1 DEF Silence
  <2>3. CASE k \in other
    <3>1. written' = written /\ nextTs' = Ts(k) % Width
      BY <1>1, <1>4, <1>5, <2>2, <2>3 DEF Laid, Decoded
    <3>2. k - f \in Nat /\ m <= k - f /\ f + (k - f) = k
      BY <1>1
    <3>3. m * Samples <= (k - f) * Samples /\ (k - f) * Samples \in Nat /\ m * Samples \in Nat
      BY <1>1, <3>2, SamplesOf
    <3>4. nextTs' = Ts(f + (k - f))
      BY <1>1, <3>1, <3>2, TimeSame
    <3> QED  BY <1>1, <2>3, <3>1, <3>2, <3>3, <3>4 DEF LineGoesOn
  <2>4. CASE k \notin other
    <3> DEFINE n == m + (k - j) + 1
    <3>1. n \in Nat /\ f + n = k + 1 /\ k - j \in Nat
      BY <1>1
    <3>2. m * Samples + (k - j) * Samples + Samples = n * Samples
      BY <1>1, <1>3
    <3>3. written' = written + (k - j) * Samples + Samples
      BY <1>1, <1>3, <1>4, <2>2, <2>4, <3>1 DEF Laid
    <3>4. nextTs' = Ts(k + 1)
      BY <1>1, <1>4, <2>2, <2>4, NextTime DEF Decoded
    <3>5. (k - j) * Samples \in Nat /\ m * Samples \in Nat
      BY <1>3, <3>1
    <3> HIDE DEF n
    <3>6. written' \in 0 .. n * Samples /\ (other = {} => written' = n * Samples)
      BY <1>1, <1>3, <3>1, <3>2, <3>3, <3>5
    <3> QED  BY <1>1, <3>1, <3>4, <3>6 DEF LineGoesOn
  <2> QED  BY <2>3, <2>4
<1>7. CASE Ts(j) >= Ts(k)
  <2>1. Gap(k) = 0 /\ Silence(Gap(k)) = 0
    BY <1>1, <1>3, <1>5, <1>7 DEF Gap, Silence
  <2>2. nextTs <= Ts(k) => j = k
    BY <1>1, <1>5, <1>7, TimesOf
  <2>3. CASE k \in other
    <3>1. written' = written /\ nextTs' = Ts(j)
      BY <1>1, <1>4, <1>5, <2>1, <2>3, TimeSame DEF Laid, Decoded
    <3> QED  BY <1>1, <2>3, <3>1 DEF LineGoesOn
  <2>4. CASE k \notin other
    <3>1. written' = written + Samples /\ nextTs' = (Ts(j) + Samples) % Width
      BY <1>1, <1>3, <1>4, <1>5, <2>1, <2>4 DEF Laid, Decoded
    <3>2. nextTs' = Ts(j + 1) /\ j + 1 = f + (m + 1)
      BY <1>1, <3>1, NextTime
    <3>3. (m + 1) * Samples = m * Samples + Samples /\ m * Samples \in Nat
      BY <1>3
    <3>4. written' \in 0 .. (m + 1) * Samples /\ (other = {} => written' = (m + 1) * Samples)
      BY <1>1, <1>3, <3>1, <3>3
    <3> QED  BY <1>1, <2>2, <3>2, <3>4 DEF LineGoesOn
  <2> QED  BY <2>3, <2>4
<1> QED  BY <1>5, <1>6, <1>7

\* The first packet.
LEMMA FirstWritten ==
  ASSUME LineInv, NEW k \in Nat, k < packets, OnPacket(k), nextTs = 0, written = 0
  PROVE  \E n \in Nat : LineGoesOn(k, k, n) /\ (other = {} => n = 1)
<1>1. start \in Starts /\ k < MaxSent /\ Samples \in Nat /\ Width \in Nat \ {0} /\ MaxSent \in Nat
  BY RtpAssumption DEF LineInv
<1>2. Gap(k) = 0 /\ Silence(Gap(k)) = 0
  BY <1>1 DEF Gap, Silence
<1>3. written' = 0 + Laid(k, Gap(k)) /\ nextTs' = (Ts(k) + Decoded(k)) % Width
  BY DEF OnPacket
<1>4. Ts(k) \in Nat /\ Ts(k) % Width = Ts(k)
  BY <1>1, TimeSame
<1>5. CASE k \in other
  <2>1. written' = 0 /\ nextTs' = Ts(k + 0) /\ 0 * Samples = 0
    BY <1>1, <1>3, <1>4, <1>5 DEF Laid, Decoded
  <2>2. LineGoesOn(k, k, 0)
    BY <1>5, <2>1 DEF LineGoesOn
  <2> QED  BY <1>5, <2>2
<1>6. CASE k \notin other
  <2>1. written' = Samples /\ nextTs' = Ts(k + 1) /\ 1 * Samples = Samples
    BY <1>1, <1>2, <1>3, <1>6, NextTime DEF Laid, Decoded
  <2>2. LineGoesOn(k, k, 1)
    BY <1>1, <2>1 DEF LineGoesOn
  <2> QED  BY <2>2
<1> QED  BY <1>5, <1>6

\* A packet that is written goes on from what is there.
LEMMA ProcessLine ==
  ASSUME NoZero, LineInv, ProcessPacket
  PROVE  LineInv' /\ Behind' >= 0 /\ (other = {} => MadeGood)
<1>1. /\ arrived \subseteq Nat /\ arrived # {} /\ arrived \subseteq 0 .. packets - 1 /\ packets \in Nat
      /\ Samples \in Nat
  BY RtpAssumption DEF LineInv, ProcessPacket
<1>2. PICK k \in arrived : /\ k = CHOOSE x \in arrived : \A j \in arrived : x <= j
                           /\ \A j \in arrived : k <= j
  BY <1>1, Earliest
<1>3. /\ OnPacket(k) /\ arrived' = arrived \ {k}
      /\ handled' = <<IF handled = <<>> THEN k ELSE handled[1], k>>
      /\ UNCHANGED <<start, packets, delayed, other>>
  BY <1>2 DEF ProcessPacket
<1>4. k \in Nat /\ k < packets /\ \A j \in arrived' : j > k
  <2>1. \A j \in arrived : j \in Nat /\ j < packets
    BY <1>1
  <2> HIDE <1>1
  <2> QED  BY <1>2, <1>3, <2>1
<1>5. \A x : Ts(x)' = Ts(x)
  BY <1>3 DEF Ts
<1>6. \E f, n \in Nat :
        /\ handled' = <<f, k>> /\ LineGoesOn(f, k, n)
        /\ other = {} /\ nextTs <= Ts(k) => f + n = k + 1
  <2>1. CASE handled = <<>> /\ nextTs = 0 /\ written = 0
    <3>1. PICK n \in Nat : LineGoesOn(k, k, n) /\ (other = {} => n = 1)
      BY <1>3, <1>4, <2>1, FirstWritten
    <3>2. handled' = <<k, k>>
      BY <1>3, <2>1
    <3>3. other = {} /\ nextTs <= Ts(k) => k + n = k + 1
      BY <3>1
    <3> QED  BY <1>4, <3>1, <3>2, <3>3, Zenon
  <2>2. CASE \E f, l, m \in Nat : LineIs(f, l, m)
    <3>1. PICK f \in Nat, l \in Nat, m \in Nat : LineIs(f, l, m)
      BY <2>2
    <3>2. handled' = <<f, k>> /\ k > l
      BY <1>2, <1>3, <3>1 DEF LineIs
    <3>3. \E n \in Nat : /\ LineGoesOn(f, k, n)
                         /\ other = {} /\ nextTs <= Ts(k) => f + n = k + 1
      BY <1>3, <1>4, <3>1, <3>2, PacketWritten
    <3> QED  BY <3>1, <3>2, <3>3
  <2> QED  BY <2>1, <2>2 DEF LineInv
<1>7. PICK f \in Nat, n \in Nat :
        /\ handled' = <<f, k>> /\ LineGoesOn(f, k, n)
        /\ other = {} /\ nextTs <= Ts(k) => f + n = k + 1
  BY <1>6
<1>8. LineIs(f, k, n)'
  <2>1. nextTs' = Ts(f + n)' /\ written' \in 0 .. n * Samples /\ f + n <= k + 1
    BY <1>5, <1>7 DEF LineGoesOn
  <2>2. k < packets' /\ \A j \in arrived' : j > k
    BY <1>3, <1>4
  <2>3. other' = {} => written' = n * Samples
    BY <1>3, <1>7 DEF LineGoesOn
  <2> QED  BY <1>4, <1>7, <2>1, <2>2, <2>3 DEF LineIs
<1>9. LineInv'
  <2>1. \E g, l, m \in Nat : LineIs(g, l, m)'
    BY <1>4, <1>8
  <2>2. arrived' \subseteq 0 .. packets' - 1 /\ delayed' \subseteq 0 .. packets' - 1
    BY <1>1, <1>3 DEF LineInv
  <2>3. start' \in Starts /\ packets' \in 0 .. MaxSent
    BY <1>3 DEF LineInv
  <2> QED  BY <2>1, <2>2, <2>3 DEF LineInv
<1>10. Behind' = (k - f + 1) * Samples - written'
  <2>1. handled' # <<>> /\ handled'[1] = f /\ handled'[2] = k
    BY <1>7
  <2> QED  BY <1>7, <2>1 DEF Behind
<1>11. (k - f + 1) * Samples - n * Samples = (k - f + 1 - n) * Samples /\ k - f + 1 - n \in Nat
  BY <1>1, <1>4, <1>7 DEF LineGoesOn
<1>12. Behind' >= 0
  <2>1. written' \in 0 .. n * Samples /\ n * Samples \in Nat
    BY <1>1, <1>7 DEF LineGoesOn
  <2>2. (k - f + 1 - n) * Samples >= 0 /\ (k - f + 1) * Samples \in Int
    BY <1>1, <1>4, <1>11
  <2> QED  BY <1>10, <1>11, <2>1, <2>2
<1>13. other = {} /\ nextTs <= Ts(k) => Behind' = 0
  <2> SUFFICES ASSUME other = {}, nextTs <= Ts(k) PROVE Behind' = 0
    OBVIOUS
  <2>1. k - f + 1 - n = 0 /\ written' = n * Samples
    BY <1>4, <1>7 DEF LineGoesOn
  <2>2. 0 * Samples = 0
    BY <1>1
  <2> QED  BY <1>10, <1>11, <2>1, <2>2
<1>14. other = {} => MadeGood
  BY <1>7, <1>13 DEF MadeGood
<1> QED  BY <1>9, <1>12, <1>14

LEMMA LineNotBehind == LineInv => Behind >= 0
<1> SUFFICES ASSUME LineInv PROVE Behind >= 0
  OBVIOUS
<1>1. Samples \in Nat
  BY RtpAssumption
<1>2. CASE handled = <<>> /\ nextTs = 0 /\ written = 0
  BY <1>2 DEF Behind
<1>3. CASE \E f, l, m \in Nat : LineIs(f, l, m)
  <2>1. PICK f \in Nat, l \in Nat, m \in Nat : LineIs(f, l, m)
    BY <1>3
  <2>2. Behind = (l - f + 1) * Samples - written
    <3>1. handled # <<>> /\ handled[1] = f /\ handled[2] = l
      BY <2>1 DEF LineIs
    <3> QED  BY <2>1, <3>1 DEF Behind, LineIs
  <2>3. (l - f + 1) * Samples - m * Samples = (l - f + 1 - m) * Samples /\ l - f + 1 - m \in Nat
    BY <1>1, <2>1 DEF LineIs
  <2>4. written \in 0 .. m * Samples /\ m * Samples \in Nat
    BY <1>1, <2>1 DEF LineIs
  <2>5. (l - f + 1 - m) * Samples >= 0 /\ (l - f + 1) * Samples \in Int
    BY <1>1, <2>1, <2>3 DEF LineIs
  <2> QED  BY <2>2, <2>3, <2>4, <2>5
<1> QED  BY <1>2, <1>3 DEF LineInv

\* RTPRecorderSession.cpp: where no packet comes after a later one was written, and
\* no timestamp is 0, the recording is never longer than the packets span, and in a
\* stream of audio only a packet that does not seem to lie in the past ends where the
\* span does.
THEOREM TimelineAlwaysKept == ASSUME ~ Late, NoZero PROVE RtpSpec => TimelineKept
<1> USE DEF NoZero
<1>1. RtpInit => LineInv
  <2> SUFFICES ASSUME RtpInit PROVE LineInv
    OBVIOUS
  <2> QED  BY RtpAssumption DEF RtpInit, LineInv
<1>2. LineInv /\ [RtpNext]_rtpVars =>
        LineInv' /\ [Behind' >= 0 /\ (other = {} => MadeGood)]_rtpVars
  <2> SUFFICES ASSUME LineInv, [RtpNext]_rtpVars
               PROVE  LineInv' /\ [Behind' >= 0 /\ (other = {} => MadeGood)]_rtpVars
    OBVIOUS
  <2>1. /\ arrived \subseteq 0 .. packets - 1 /\ delayed \subseteq 0 .. packets - 1
        /\ start \in Starts /\ packets \in 0 .. MaxSent /\ MaxSent \in Nat
    BY RtpAssumption DEF LineInv
  <2>2. CASE UNCHANGED rtpVars
    <3>1. \A f, l, m : LineIs(f, l, m)' <=> LineIs(f, l, m)
      BY <2>2 DEF LineIs, rtpVars, Ts
    <3>2. LineInv'
      BY <2>2, <3>1 DEF LineInv, rtpVars
    <3> QED  BY <2>2, <3>2
  <2>3. CASE Send
    <3>1. UNCHANGED <<start, nextTs, written, handled>> /\ packets' = packets + 1 /\ packets < MaxSent
      BY <2>3 DEF Send
    <3>2. arrived' \subseteq arrived \cup {packets} /\ delayed' \subseteq delayed \cup {packets}
      BY <2>3 DEF Send
    <3>3. other' = {} => other = {}
      BY <2>3 DEF Send
    <3>4. \A f, l, m \in Nat : LineIs(f, l, m) => LineIs(f, l, m)'
      BY <2>1, <3>1, <3>2, <3>3 DEF LineIs, Ts
    <3>5. LineInv'
      BY <2>1, <3>1, <3>2, <3>4 DEF LineInv
    <3>6. Behind' = Behind
      BY <3>1 DEF Behind
    <3> QED  BY <3>1, <3>5, <3>6, LineNotBehind DEF MadeGood
  <2>4. ASSUME NEW k \in 0 .. MaxSent, Arrive(k)
        PROVE  LineInv' /\ Behind' >= 0 /\ handled' = handled
    <3>1. /\ UNCHANGED <<start, packets, other, nextTs, written, handled>> /\ k \in delayed
          /\ arrived' = arrived \cup {k} /\ delayed' = delayed \ {k}
          /\ handled # <<>> => k > handled[2]
      BY <2>4 DEF Arrive
    <3>2. \A f, l, m \in Nat : LineIs(f, l, m) => LineIs(f, l, m)'
      <4> SUFFICES ASSUME NEW f \in Nat, NEW l \in Nat, NEW m \in Nat, LineIs(f, l, m)
                   PROVE  LineIs(f, l, m)'
        OBVIOUS
      <4>1. k > l
        BY <3>1 DEF LineIs
      <4> QED  BY <3>1, <4>1 DEF LineIs, Ts
    <3>3. LineInv'
      BY <2>1, <3>1, <3>2 DEF LineInv
    <3>4. Behind' = Behind
      BY <3>1 DEF Behind
    <3> QED  BY <3>1, <3>3, <3>4, LineNotBehind
  <2>5. CASE ProcessPacket
    BY <2>5, ProcessLine
  <2> QED  BY <2>2, <2>3, <2>4, <2>5 DEF RtpNext, MadeGood
<1> QED  BY <1>1, <1>2, PTL DEF RtpSpec, TimelineKept

-----------------------------------------------------------------------------
(* Runs of free units. *)

\* check_bits gives the length of a run, and none is longer.
LEMMA LongestIs ==
  ASSUME NEW m
  PROVE  /\ Longest(m) \in 0 .. COUNT_ITEM
         /\ \A r \in Runs(m) : r[2] <= Longest(m)
         /\ Longest(m) # 0 => \E r \in Runs(m) : r[2] = Longest(m)
<1> DEFINE lengths == {0} \cup {r[2] : r \in Runs(m)}
           short == {COUNT_ITEM - n : n \in lengths}
<1>1. COUNT_ITEM \in Nat \ {0}
  BY BufAssumption
<1>2. \A n \in lengths : n \in 0 .. COUNT_ITEM
  BY <1>1 DEF Runs, Lists
<1>3. short \in SUBSET Nat /\ short # {}
  BY <1>1, <1>2
<1>4. PICK k \in short : \A j \in short : k <= j
  BY <1>3, Earliest
<1>5. PICK n \in lengths : k = COUNT_ITEM - n
  BY <1>4
<1>6. \A i \in lengths : i <= n
  <2> TAKE i \in lengths
  <2>1. COUNT_ITEM - i \in short
    OBVIOUS
  <2> HIDE DEF short, lengths
  <2> QED  BY <1>1, <1>2, <1>4, <1>5, <2>1
<1>7. Longest(m) = CHOOSE i \in lengths : \A j \in lengths : j <= i
  BY DEF Longest
<1> HIDE DEF short, lengths
<1>8. Longest(m) \in lengths /\ \A j \in lengths : j <= Longest(m)
  BY <1>5, <1>6, <1>7
<1> QED  BY <1>2, <1>8 DEF lengths

\* A buffer that is free as a whole.
LEMMA LongestFree == Longest({}) = COUNT_ITEM
<1>1. COUNT_ITEM \in Nat \ {0}
  BY BufAssumption
<1>2. <<0, COUNT_ITEM>> \in Runs({})
  BY <1>1 DEF Runs, Units, Lists
<1>3. COUNT_ITEM <= Longest({})
  BY <1>2, LongestIs
<1> QED  BY <1>1, <1>3, LongestIs

\* find_bits gives the start of n free units, where there are as many in a row.
LEMMA FindBitsIs ==
  ASSUME NEW m, NEW n \in Lists, n <= Longest(m)
  PROVE  /\ FindBits(m, n) \in 0 .. COUNT_ITEM - n
         /\ \A u \in FindBits(m, n) .. FindBits(m, n) + n - 1 : u \notin m
<1> DEFINE fit == {r \in Runs(m) : r[2] >= n}
           first(r) == \A q \in fit : r[2] < q[2] \/ (r[2] = q[2] /\ r[1] <= q[1])
<1>1. COUNT_ITEM \in Nat \ {0} /\ n \in Nat \ {0}
  BY BufAssumption DEF Lists
<1>2. \A r \in fit : /\ r[1] \in Nat /\ r[2] \in Nat /\ n <= r[2] /\ r[1] + r[2] <= COUNT_ITEM
                     /\ \A u \in r[1] .. r[1] + r[2] - 1 : u \notin m
  BY <1>1 DEF Runs, Units, Lists
<1>3. fit # {}
  BY <1>1, LongestIs
<1>4. \E r \in fit : first(r)
  <2> DEFINE lengths == {r[2] : r \in fit}
  <2>1. lengths \in SUBSET Nat /\ lengths # {}
    BY <1>2, <1>3
  <2>2. PICK k \in lengths : \A j \in lengths : k <= j
    BY <2>1, Earliest
  <2> DEFINE shortest == {r \in fit : r[2] = k}
             starts == {r[1] : r \in shortest}
  <2>3. starts \in SUBSET Nat /\ starts # {}
    BY <1>2, <2>2
  <2>4. PICK s \in starts : \A j \in starts : s <= j
    BY <2>3, Earliest
  <2>5. PICK r \in fit : r[2] = k /\ r[1] = s
    BY <2>4
  <2>6. ASSUME NEW q \in fit PROVE r[2] < q[2] \/ (r[2] = q[2] /\ r[1] <= q[1])
    <3>1. k <= q[2]
      BY <2>2
    <3>2. q[2] = k => q[1] \in starts
      OBVIOUS
    <3> HIDE DEF fit, lengths, shortest, starts
    <3> QED  BY <1>2, <2>4, <2>5, <3>1, <3>2
  <2> HIDE DEF fit
  <2> QED  BY <2>5, <2>6
<1>5. FindBits(m, n) = (CHOOSE r \in fit : first(r))[1]
  BY DEF FindBits
<1> HIDE DEF fit, first
<1>6. PICK r \in fit : FindBits(m, n) = r[1]
  BY <1>4, <1>5
<1> QED  BY <1>1, <1>2, <1>6

-----------------------------------------------------------------------------
(* The lists: the buffers b with h[b] = k are those of list k. *)

\* f goes over list k, which has n buffers and is linked both ways.
ListIs(nx, pv, head, n, h, k, f) ==
  /\ n \in Nat /\ f \in [1 .. n -> Buffers]
  /\ head = IF n = 0 THEN 0 ELSE f[1]
  /\ \A i \in 1 .. n : /\ h[f[i]] = k
                       /\ nx[f[i]] = IF i < n THEN f[i + 1] ELSE 0
                       /\ pv[f[i]] = IF i > 1 THEN f[i - 1] ELSE 0
  /\ \A b \in Buffers : h[b] = k => \E i \in 1 .. n : f[i] = b
  /\ \A i, j \in 1 .. n : f[i] = f[j] => i = j

LEMMA BuffersAre == Buffers \subseteq Nat /\ 0 \notin Buffers
<1>1. BufChunk \in Nat /\ MaxChunks \in Nat
  BY BufAssumption
<1>2. MaxChunks * BufChunk \in Nat
  BY <1>1
<1> QED  BY <1>2 DEF Buffers

\* The buffers before and after one of a list are of the same list.
LEMMA NeighboursOf ==
  ASSUME NEW nx, NEW pv, NEW head, NEW n, NEW h, NEW k, NEW f, ListIs(nx, pv, head, n, h, k, f),
         NEW b \in Buffers, h[b] = k
  PROVE  /\ nx[b] # 0 => nx[b] \in Buffers /\ h[nx[b]] = k
         /\ pv[b] # 0 => pv[b] \in Buffers /\ h[pv[b]] = k
         /\ pv[b] = 0 <=> head = b
         /\ head # 0 /\ n \in Nat \ {0}
<1>1. /\ n \in Nat /\ f \in [1 .. n -> Buffers]
      /\ head = IF n = 0 THEN 0 ELSE f[1]
      /\ \A i \in 1 .. n : /\ h[f[i]] = k
                           /\ nx[f[i]] = IF i < n THEN f[i + 1] ELSE 0
                           /\ pv[f[i]] = IF i > 1 THEN f[i - 1] ELSE 0
      /\ \A i, j \in 1 .. n : f[i] = f[j] => i = j
  BY DEF ListIs
<1>2. PICK p \in 1 .. n : f[p] = b
  BY DEF ListIs
<1>3. /\ nx[b] = IF p < n THEN f[p + 1] ELSE 0
      /\ pv[b] = IF p > 1 THEN f[p - 1] ELSE 0
      /\ n # 0 /\ head = f[1] /\ 1 \in 1 .. n
  BY <1>1, <1>2
<1>4. p < n => p + 1 \in 1 .. n
  BY <1>1
<1>5. p > 1 => p - 1 \in 1 .. n
  BY <1>1
<1>6. /\ nx[b] # 0 => nx[b] \in Buffers /\ h[nx[b]] = k
      /\ pv[b] # 0 => pv[b] \in Buffers /\ h[pv[b]] = k
  BY <1>1, <1>3, <1>4, <1>5
<1>7. pv[b] = 0 => p = 1
  <2>1. p > 1 => f[p - 1] \in Buffers
    BY <1>1, <1>5
  <2> QED  BY <1>1, <1>3, <2>1, BuffersAre
<1>8. head = b => p = 1
  BY <1>1, <1>2, <1>3
<1>9. p = 1 => pv[b] = 0 /\ head = b
  BY <1>2, <1>3
<1>10. head # 0
  BY <1>1, <1>3, BuffersAre
<1> QED  BY <1>1, <1>3, <1>6, <1>7, <1>8, <1>9, <1>10

\* A list that is not touched.
LEMMA ListStays ==
  ASSUME NEW nx, NEW pv, NEW head, NEW n, NEW h, NEW k, NEW f, ListIs(nx, pv, head, n, h, k, f),
         NEW nx2, NEW pv2, NEW h2,
         \A x \in Buffers : h[x] = k => nx2[x] = nx[x] /\ pv2[x] = pv[x],
         \A x \in Buffers : h[x] = k <=> h2[x] = k
  PROVE  ListIs(nx2, pv2, head, n, h2, k, f)
<1>1. \A i \in 1 .. n : f[i] \in Buffers /\ h[f[i]] = k
  BY DEF ListIs
<1>2. \A i \in 1 .. n : /\ h2[f[i]] = k
                        /\ nx2[f[i]] = IF i < n THEN f[i + 1] ELSE 0
                        /\ pv2[f[i]] = IF i > 1 THEN f[i - 1] ELSE 0
  BY <1>1 DEF ListIs
<1>3. \A b \in Buffers : h2[b] = k => \E i \in 1 .. n : f[i] = b
  BY DEF ListIs
<1> QED  BY <1>2, <1>3 DEF ListIs

\* The links without buffer b, and with it before the buffer a.
Unlinks(nx, pv, b, nx2, pv2) ==
  \A x \in Buffers : /\ nx2[x] = IF x = pv[b] THEN nx[b] ELSE nx[x]
                     /\ pv2[x] = IF x = nx[b] THEN pv[b] ELSE pv[x]

Relinks(nx, pv, b, a, nx2, pv2) ==
  \A x \in Buffers : /\ nx2[x] = IF x = b THEN a ELSE nx[x]
                     /\ pv2[x] = IF x = a THEN b ELSE IF x = b THEN 0 ELSE pv[x]

\* The list that buffer b leaves, wherever it is in it.
LEMMA ListShorter ==
  ASSUME NEW nx, NEW pv, NEW head, NEW n, NEW h, NEW k, NEW f, ListIs(nx, pv, head, n, h, k, f),
         NEW b \in Buffers, h[b] = k, NEW nx2, NEW pv2, NEW h2,
         Unlinks(nx, pv, b, nx2, pv2), \A x \in Buffers : h2[x] = k <=> h[x] = k /\ x # b
  PROVE  \E e : ListIs(nx2, pv2, IF head = b THEN nx[b] ELSE head, n - 1, h2, k, e)
<1> USE DEF Unlinks
<1>1. /\ n \in Nat /\ f \in [1 .. n -> Buffers]
      /\ head = IF n = 0 THEN 0 ELSE f[1]
      /\ \A i \in 1 .. n : /\ h[f[i]] = k
                           /\ nx[f[i]] = IF i < n THEN f[i + 1] ELSE 0
                           /\ pv[f[i]] = IF i > 1 THEN f[i - 1] ELSE 0
      /\ \A x \in Buffers : h[x] = k => \E i \in 1 .. n : f[i] = x
      /\ \A i, j \in 1 .. n : f[i] = f[j] => i = j
  BY DEF ListIs
<1>2. PICK p \in 1 .. n : f[p] = b
  BY <1>1
<1>3. /\ nx[b] = IF p < n THEN f[p + 1] ELSE 0
      /\ pv[b] = IF p > 1 THEN f[p - 1] ELSE 0
  BY <1>1, <1>2
<1> DEFINE e == [i \in 1 .. n - 1 |-> IF i < p THEN f[i] ELSE f[i + 1]]
<1>4. e \in [1 .. n - 1 -> Buffers] /\ \A i \in 1 .. n - 1 : e[i] = IF i < p THEN f[i] ELSE f[i + 1]
  BY <1>1
<1> HIDE DEF e
<1>5. (IF head = b THEN nx[b] ELSE head) = IF n - 1 = 0 THEN 0 ELSE e[1]
  <2>1. head = f[1]
    BY <1>1
  <2>2. CASE p = 1
    BY <1>1, <1>2, <1>3, <1>4, <2>1, <2>2
  <2>3. CASE p > 1
    <3>1. f[1] # b
      BY <1>1, <1>2, <2>3
    <3> QED  BY <1>1, <1>4, <2>1, <2>3, <3>1
  <2> QED  BY <1>1, <2>2, <2>3
<1>6. \A i \in 1 .. n - 1 : h2[e[i]] = k
  <2> TAKE i \in 1 .. n - 1
  <2>1. PICK q \in 1 .. n : e[i] = f[q] /\ q # p
    <3>1. CASE i < p
      BY <1>1, <1>4, <3>1
    <3>2. CASE i >= p
      <4>1. i + 1 \in 1 .. n /\ i + 1 # p /\ e[i] = f[i + 1]
        BY <1>1, <1>4, <3>2
      <4> QED  BY <4>1
    <3> QED  BY <1>1, <3>1, <3>2
  <2>2. e[i] \in Buffers /\ h[e[i]] = k /\ e[i] # b
    BY <1>1, <1>2, <2>1
  <2> QED  BY <2>2
<1>7. \A i \in 1 .. n - 1 : /\ e[i] = pv[b] <=> i = p - 1
                            /\ e[i] = nx[b] <=> i = p
  <2> TAKE i \in 1 .. n - 1
  <2>1. CASE i < p
    <3>1. e[i] = f[i]
      BY <1>4, <2>1
    <3> QED  BY <1>1, <1>3, <2>1, <3>1, BuffersAre, SMTT(30)
  <2>2. CASE i >= p
    <3>1. e[i] = f[i + 1]
      BY <1>1, <1>4, <2>2
    <3> QED  BY <1>1, <1>3, <2>2, <3>1, BuffersAre, SMTT(30)
  <2> QED  BY <1>1, <2>1, <2>2
<1>8. \A i \in 1 .. n - 1 : nx2[e[i]] = IF i < n - 1 THEN e[i + 1] ELSE 0
  <2> TAKE i \in 1 .. n - 1
  <2>1. nx2[e[i]] = IF i = p - 1 THEN nx[b] ELSE nx[e[i]]
    BY <1>4, <1>7
  <2>2. CASE i = p - 1
    <3>1. /\ i < n - 1 <=> p < n
          /\ i < n - 1 => e[i + 1] = f[p + 1]
      BY <1>1, <1>4, <2>2
    <3> QED  BY <1>3, <2>1, <2>2, <3>1
  <2>3. CASE i < p - 1
    <3>1. /\ e[i] = f[i] /\ i < n - 1 /\ e[i + 1] = f[i + 1] /\ i \in 1 .. n /\ i < n
      BY <1>1, <1>4, <2>3
    <3>2. nx[f[i]] = f[i + 1]
      BY <1>1, <3>1
    <3> QED  BY <2>1, <2>3, <3>1, <3>2
  <2>4. CASE i >= p
    <3>1. /\ e[i] = f[i + 1] /\ i + 1 \in 1 .. n /\ (i + 1 < n <=> i < n - 1)
          /\ i < n - 1 => e[i + 1] = f[i + 1 + 1]
      BY <1>1, <1>4, <2>4
    <3>2. nx[f[i + 1]] = IF i + 1 < n THEN f[i + 1 + 1] ELSE 0
      BY <1>1, <3>1
    <3>3. i # p - 1
      BY <1>1, <2>4
    <3> QED  BY <2>1, <3>1, <3>2, <3>3
  <2> QED  BY <1>1, <2>2, <2>3, <2>4
<1>9. \A i \in 1 .. n - 1 : pv2[e[i]] = IF i > 1 THEN e[i - 1] ELSE 0
  <2> TAKE i \in 1 .. n - 1
  <2>1. pv2[e[i]] = IF i = p THEN pv[b] ELSE pv[e[i]]
    BY <1>4, <1>7
  <2>2. CASE i = p
    <3>1. p > 1 => e[i - 1] = f[p - 1]
      BY <1>1, <1>4, <2>2
    <3> QED  BY <1>3, <2>1, <2>2, <3>1
  <2>3. CASE i < p
    <3>1. e[i] = f[i] /\ i \in 1 .. n /\ (i > 1 => e[i - 1] = f[i - 1])
      BY <1>1, <1>4, <2>3, SMTT(30)
    <3>2. pv[f[i]] = IF i > 1 THEN f[i - 1] ELSE 0
      BY <1>1, <3>1
    <3> QED  BY <1>1, <2>1, <2>3, <3>1, <3>2
  <2>4. CASE i > p
    <3>0. i - 1 \in 1 .. n - 1 /\ ~ (i - 1 < p) /\ ~ (i < p) /\ i - 1 + 1 = i
      BY <1>1, <2>4
    <3>1. /\ e[i] = f[i + 1] /\ i + 1 \in 1 .. n /\ i + 1 > 1 /\ i > 1
          /\ e[i - 1] = f[i] /\ i + 1 - 1 = i
      BY <1>1, <1>4, <2>4, <3>0
    <3>2. pv[f[i + 1]] = f[i + 1 - 1]
      BY <1>1, <3>1
    <3> QED  BY <1>1, <2>1, <2>4, <3>1, <3>2
  <2> QED  BY <1>1, <2>2, <2>3, <2>4
<1>10. \A x \in Buffers : h2[x] = k => \E i \in 1 .. n - 1 : e[i] = x
  <2> SUFFICES ASSUME NEW x \in Buffers, h2[x] = k PROVE \E i \in 1 .. n - 1 : e[i] = x
    OBVIOUS
  <2>1. PICK i \in 1 .. n : f[i] = x
    BY <1>1
  <2>2. i # p
    BY <1>2, <2>1
  <2>3. CASE i < p
    <3>1. i \in 1 .. n - 1 /\ e[i] = x
      BY <1>1, <1>4, <2>1, <2>3
    <3> QED  BY <3>1
  <2>4. CASE i > p
    <3>1. i - 1 \in 1 .. n - 1 /\ ~ (i - 1 < p) /\ i - 1 + 1 = i
      BY <1>1, <2>4
    <3>2. e[i - 1] = x
      BY <1>4, <2>1, <3>1
    <3> QED  BY <3>1, <3>2
  <2> QED  BY <1>1, <2>2, <2>3, <2>4
<1>11. \A i, j \in 1 .. n - 1 : e[i] = e[j] => i = j
  <2> TAKE i, j \in 1 .. n - 1
  <2> DEFINE q == IF i < p THEN i ELSE i + 1
             r == IF j < p THEN j ELSE j + 1
  <2>1. q \in 1 .. n /\ r \in 1 .. n /\ e[i] = f[q] /\ e[j] = f[r]
    BY <1>1, <1>4
  <2>2. q = r => i = j
    BY <1>1
  <2> HIDE DEF q, r
  <2>3. f[q] = f[r] => q = r
    BY <1>1, <2>1, Zenon
  <2> QED  BY <2>1, <2>2, <2>3
<1>12. n - 1 \in Nat
  BY <1>1
<1>13. ListIs(nx2, pv2, IF head = b THEN nx[b] ELSE head, n - 1, h2, k, e)
  BY <1>4, <1>5, <1>6, <1>8, <1>9, <1>10, <1>11, <1>12 DEF ListIs
<1> QED  BY <1>13

\* The list that buffer b comes to the head of.
LEMMA ListLonger ==
  ASSUME NEW nx, NEW pv, NEW head, NEW n, NEW h, NEW k, NEW f, ListIs(nx, pv, head, n, h, k, f),
         NEW b \in Buffers, h[b] # k, NEW nx2, NEW pv2, NEW h2,
         Relinks(nx, pv, b, head, nx2, pv2), \A x \in Buffers : h2[x] = k <=> h[x] = k \/ x = b
  PROVE  \E e : ListIs(nx2, pv2, b, n + 1, h2, k, e)
<1> USE DEF Relinks
<1>1. /\ n \in Nat /\ f \in [1 .. n -> Buffers]
      /\ head = IF n = 0 THEN 0 ELSE f[1]
      /\ \A i \in 1 .. n : /\ h[f[i]] = k
                           /\ nx[f[i]] = IF i < n THEN f[i + 1] ELSE 0
                           /\ pv[f[i]] = IF i > 1 THEN f[i - 1] ELSE 0
      /\ \A x \in Buffers : h[x] = k => \E i \in 1 .. n : f[i] = x
      /\ \A i, j \in 1 .. n : f[i] = f[j] => i = j
  BY DEF ListIs
<1>2. \A i \in 1 .. n : f[i] \in Buffers /\ f[i] # b
  BY <1>1
<1> DEFINE e == [i \in 1 .. n + 1 |-> IF i = 1 THEN b ELSE f[i - 1]]
<1>3. /\ e \in [1 .. n + 1 -> Buffers] /\ e[1] = b
      /\ \A i \in 1 .. n : i + 1 \in 1 .. n + 1 /\ e[i + 1] = f[i]
  <2>1. \A i \in 1 .. n + 1 : i # 1 => i - 1 \in 1 .. n
    BY <1>1
  <2>2. e \in [1 .. n + 1 -> Buffers]
    BY <1>1, <2>1
  <2>3. 1 \in 1 .. n + 1 /\ \A i \in 1 .. n : i + 1 \in 1 .. n + 1 /\ i + 1 # 1 /\ i + 1 - 1 = i
    BY <1>1
  <2> QED  BY <2>2, <2>3
<1> HIDE DEF e
\* Each place is the first, or comes after one of f.
<1>4. \A i \in 1 .. n + 1 : i = 1 \/ \E q \in 1 .. n : i = q + 1
  <2> TAKE i \in 1 .. n + 1
  <2>1. i # 1 => i - 1 \in 1 .. n /\ i = i - 1 + 1
    BY <1>1
  <2> QED  BY <2>1
<1>5. \A i \in 1 .. n + 1 : h2[e[i]] = k
  <2>1. \A q \in 1 .. n : h2[f[q]] = k
    BY <1>1, <1>2
  <2> QED  BY <1>3, <1>4, <2>1
<1>6. \A i \in 1 .. n + 1 : nx2[e[i]] = IF i < n + 1 THEN e[i + 1] ELSE 0
  <2>1. nx2[e[1]] = IF 1 < n + 1 THEN e[1 + 1] ELSE 0
    <3>1. nx2[e[1]] = head
      BY <1>3
    <3>2. CASE n = 0
      BY <1>1, <3>1, <3>2
    <3>3. CASE n # 0
      <4>1. 1 \in 1 .. n
        BY <1>1, <3>3
      <4> QED  BY <1>1, <1>3, <3>1, <3>3, <4>1
    <3> QED  BY <3>2, <3>3
  <2>2. ASSUME NEW q \in 1 .. n
        PROVE  nx2[e[q + 1]] = IF q + 1 < n + 1 THEN e[q + 1 + 1] ELSE 0
    <3>1. e[q + 1] = f[q] /\ nx2[f[q]] = nx[f[q]]
      BY <1>2, <1>3
    <3>2. q + 1 < n + 1 <=> q < n
      BY <1>1
    <3>3. q < n => q + 1 \in 1 .. n /\ e[q + 1 + 1] = f[q + 1]
      BY <1>1, <1>3
    <3> QED  BY <1>1, <3>1, <3>2, <3>3
  <2> QED  BY <1>4, <2>1, <2>2
<1>7. \A i \in 1 .. n + 1 : pv2[e[i]] = IF i > 1 THEN e[i - 1] ELSE 0
  <2>1. pv2[e[1]] = 0
    <3>1. b # head
      <4>1. n # 0 => 1 \in 1 .. n
        BY <1>1
      <4> QED  BY <1>1, <1>2, <4>1, BuffersAre
    <3> QED  BY <1>3, <3>1
  <2>2. ASSUME NEW q \in 1 .. n PROVE pv2[e[q + 1]] = e[q + 1 - 1] /\ q + 1 > 1
    <3>1. e[q + 1] = f[q] /\ f[q] # b /\ f[q] \in Buffers /\ q + 1 - 1 = q /\ q + 1 > 1
      BY <1>1, <1>2, <1>3
    <3>2. pv2[f[q]] = IF f[q] = head THEN b ELSE pv[f[q]]
      BY <3>1
    <3>3. CASE q = 1
      <4>1. f[q] = head
        BY <1>1, <3>3
      <4> QED  BY <1>3, <3>1, <3>2, <3>3, <4>1
    <3>4. CASE q > 1
      <4>1. 1 \in 1 .. n /\ n # 0 /\ q # 1
        BY <1>1, <3>4
      <4>2. f[q] # head
        BY <1>1, <4>1
      <4>3. q - 1 \in 1 .. n /\ q - 1 + 1 = q
        BY <1>1, <3>4
      <4>4. e[q] = f[q - 1]
        BY <1>3, <4>3
      <4> QED  BY <1>1, <3>1, <3>2, <3>4, <4>2, <4>4
    <3> QED  BY <1>1, <3>3, <3>4
  <2> QED  BY <1>4, <2>1, <2>2
<1>8. \A x \in Buffers : h2[x] = k => \E i \in 1 .. n + 1 : e[i] = x
  <2> SUFFICES ASSUME NEW x \in Buffers, h2[x] = k PROVE \E i \in 1 .. n + 1 : e[i] = x
    OBVIOUS
  <2>1. CASE x = b
    <3>1. 1 \in 1 .. n + 1
      BY <1>1
    <3> QED  BY <1>3, <2>1, <3>1
  <2>2. CASE x # b
    <3>1. h[x] = k
      BY <2>2
    <3>2. PICK q \in 1 .. n : f[q] = x
      BY <1>1, <3>1
    <3>3. q + 1 \in 1 .. n + 1 /\ e[q + 1] = x
      BY <1>1, <1>3, <3>2
    <3> QED  BY <3>3
  <2> QED  BY <2>1, <2>2
<1>9. \A i, j \in 1 .. n + 1 : e[i] = e[j] => i = j
  <2> TAKE i, j \in 1 .. n + 1
  <2>1. CASE i = 1 \/ j = 1
    BY <1>2, <1>3, <1>4, <2>1
  <2>2. CASE i # 1 /\ j # 1
    <3>1. PICK q \in 1 .. n, r \in 1 .. n : i = q + 1 /\ j = r + 1
      BY <1>4, <2>2
    <3>2. e[i] = f[q] /\ e[j] = f[r]
      BY <1>3, <3>1
    <3>3. f[q] = f[r] => q = r
      BY <1>1, Zenon
    <3> QED  BY <3>1, <3>2, <3>3
  <2> QED  BY <2>1, <2>2
<1>10. n + 1 \in Nat /\ n + 1 # 0
  BY <1>1
<1>11. ListIs(nx2, pv2, b, n + 1, h2, k, e)
  BY <1>3, <1>5, <1>6, <1>7, <1>8, <1>9, <1>10 DEF ListIs
<1> QED  BY <1>11

\* The list of a new chunk of n buffers, of which a is the first.
LEMMA ListOfChunk ==
  ASSUME NEW n \in Nat \ {0}, NEW a \in Buffers, \A x \in a .. a + n - 1 : x \in Buffers,
         NEW h, NEW k, NEW nx2, NEW pv2, NEW h2,
         \A x \in Buffers : h[x] # k, \A x \in a .. a + n - 1 : nx2[x] = IF x < a + n - 1 THEN x + 1 ELSE 0,
         \A x \in a .. a + n - 1 : pv2[x] = IF x > a THEN x - 1 ELSE 0,
         \A x \in Buffers : h2[x] = k <=> h[x] = k \/ x \in a .. a + n - 1
  PROVE  \E e : ListIs(nx2, pv2, a, n, h2, k, e)
<1> DEFINE e == [i \in 1 .. n |-> a + i - 1]
<1>1. a \in Nat
  BY BuffersAre
<1>2. \A i \in 1 .. n : e[i] = a + i - 1 /\ e[i] \in a .. a + n - 1 /\ e[i] \in Buffers
  BY <1>1
<1>3. e \in [1 .. n -> Buffers] /\ e[1] = a
  BY <1>1, <1>2
<1> HIDE DEF e
<1>4. \A i \in 1 .. n : /\ h2[e[i]] = k
                        /\ nx2[e[i]] = IF i < n THEN e[i + 1] ELSE 0
                        /\ pv2[e[i]] = IF i > 1 THEN e[i - 1] ELSE 0
  <2> TAKE i \in 1 .. n
  <2>1. /\ e[i] \in Buffers /\ e[i] \in a .. a + n - 1
        /\ e[i] < a + n - 1 <=> i < n
        /\ e[i] > a <=> i > 1
        /\ i < n => e[i + 1] = e[i] + 1
        /\ i > 1 => e[i - 1] = e[i] - 1
    BY <1>1, <1>2
  <2> QED  BY <2>1
<1>5. \A x \in Buffers : h2[x] = k => \E i \in 1 .. n : e[i] = x
  <2> SUFFICES ASSUME NEW x \in Buffers, h2[x] = k PROVE \E i \in 1 .. n : e[i] = x
    OBVIOUS
  <2>1. x \in a .. a + n - 1
    OBVIOUS
  <2>2. x - a + 1 \in 1 .. n /\ a + (x - a + 1) - 1 = x
    BY <1>1, <2>1
  <2>3. e[x - a + 1] = x
    BY <1>2, <2>2
  <2> QED  BY <2>2, <2>3
<1>6. \A i, j \in 1 .. n : e[i] = e[j] => i = j
  BY <1>1, <1>2
<1>7. ListIs(nx2, pv2, a, n, h2, k, e)
  BY <1>3, <1>4, <1>5, <1>6 DEF ListIs
<1> QED  BY <1>7

-----------------------------------------------------------------------------
ListsRec == [next : [Buffers -> Buffers \cup {0}], prev : [Buffers -> Buffers \cup {0}],
             heads : [Lists -> Buffers \cup {0}], counts : [Lists -> Nat]]

\* All lists; a buffer on none of them, those of B excepted, has no links.
Linked(ls, h, B) ==
  /\ ls \in ListsRec
  /\ \A k \in Lists : \E f : ListIs(ls.next, ls.prev, ls.heads[k], ls.counts[k], h, k, f)
  /\ \A b \in Buffers \ B : h[b] = 0 => ls.next[b] = 0 /\ ls.prev[b] = 0

\* Buffer b leaves list k.
OffList(ls, b, k) ==
  [ls EXCEPT
     !.prev = [x \in Buffers |-> IF x = ls.next[b] THEN ls.prev[b] ELSE ls.prev[x]],
     !.next = [x \in Buffers |-> IF x = ls.prev[b] THEN ls.next[b] ELSE ls.next[x]],
     !.heads[k] = IF ls.heads[k] = b THEN ls.next[b] ELSE ls.heads[k],
     !.counts[k] = ls.counts[k] - 1]

LEMMA TakenOff ==
  ASSUME NEW ls, NEW h \in [Buffers -> Lists \cup {0}], Linked(ls, h, {}),
         NEW b \in Buffers, NEW k \in Lists, h[b] = k
  PROVE  Linked(OffList(ls, b, k), [h EXCEPT ![b] = 0], {b})
<1> DEFINE g == [h EXCEPT ![b] = 0]
           nb == ls.next[b]
           pb == ls.prev[b]
<1>1. PICK f : ListIs(ls.next, ls.prev, ls.heads[k], ls.counts[k], h, k, f)
  BY DEF Linked
<1>2. /\ nb # 0 => nb \in Buffers /\ h[nb] = k
      /\ pb # 0 => pb \in Buffers /\ h[pb] = k
      /\ ls.counts[k] \in Nat \ {0}
  BY <1>1, NeighboursOf
<1>3. /\ ls.next \in [Buffers -> Buffers \cup {0}] /\ ls.prev \in [Buffers -> Buffers \cup {0}]
      /\ ls.heads \in [Lists -> Buffers \cup {0}] /\ ls.counts \in [Lists -> Nat]
  BY DEF Linked, ListsRec
<1>4. PICK rs : rs = OffList(ls, b, k)
  OBVIOUS
<1>5. /\ rs.prev = [x \in Buffers |-> IF x = nb THEN pb ELSE ls.prev[x]]
      /\ rs.next = [x \in Buffers |-> IF x = pb THEN nb ELSE ls.next[x]]
      /\ rs.heads = [ls.heads EXCEPT ![k] = IF ls.heads[k] = b THEN nb ELSE ls.heads[k]]
      /\ rs.counts = [ls.counts EXCEPT ![k] = ls.counts[k] - 1]
      /\ rs = [next |-> rs.next, prev |-> rs.prev, heads |-> rs.heads, counts |-> rs.counts]
  BY <1>4 DEF ListsRec, OffList, Linked
<1>6. rs \in ListsRec
  <2>1. nb \in Buffers \cup {0} /\ pb \in Buffers \cup {0}
    BY <1>2
  <2> HIDE DEF nb, pb
  <2>2. rs.prev \in [Buffers -> Buffers \cup {0}] /\ rs.next \in [Buffers -> Buffers \cup {0}]
    BY <1>3, <1>5, <2>1
  <2>3. rs.heads \in [Lists -> Buffers \cup {0}]
    BY <1>3, <1>5, <2>1
  <2>4. rs.counts \in [Lists -> Nat]
    BY <1>2, <1>3, <1>5
  <2> QED  BY <1>5, <2>2, <2>3, <2>4 DEF ListsRec
<1>7. 0 \notin Lists /\ g \in [Buffers -> Lists \cup {0}]
  BY BufAssumption DEF Lists
<1>8. \A x \in Buffers : /\ rs.next[x] = IF x = pb THEN nb ELSE ls.next[x]
                         /\ rs.prev[x] = IF x = nb THEN pb ELSE ls.prev[x]
                         /\ g[x] = IF x = b THEN 0 ELSE h[x]
  BY <1>5
<1>9. /\ rs.heads[k] = IF ls.heads[k] = b THEN nb ELSE ls.heads[k]
      /\ rs.counts[k] = ls.counts[k] - 1
      /\ \A j \in Lists \ {k} : rs.heads[j] = ls.heads[j] /\ rs.counts[j] = ls.counts[j]
  BY <1>3, <1>5
<1> HIDE DEF g
<1>10. \E e : ListIs(rs.next, rs.prev, rs.heads[k], rs.counts[k], g, k, e)
  <2>1. \A x \in Buffers : g[x] = k <=> h[x] = k /\ x # b
    BY <1>7, <1>8
  <2>2. \E e : ListIs(rs.next, rs.prev, IF ls.heads[k] = b THEN nb ELSE ls.heads[k],
                      ls.counts[k] - 1, g, k, e)
    <3>1. Unlinks(ls.next, ls.prev, b, rs.next, rs.prev)
      BY <1>8 DEF Unlinks
    <3> QED  BY <1>1, <2>1, <3>1, ListShorter
  <2> QED  BY <1>9, <2>2
<1>11. ASSUME NEW j \in Lists \ {k}
       PROVE  \E e : ListIs(rs.next, rs.prev, rs.heads[j], rs.counts[j], g, j, e)
  <2>1. PICK e : ListIs(ls.next, ls.prev, ls.heads[j], ls.counts[j], h, j, e)
    BY DEF Linked
  <2>2. \A x \in Buffers : h[x] = j <=> g[x] = j
    BY <1>7, <1>8
  <2>3. \A x \in Buffers : h[x] = j => rs.next[x] = ls.next[x] /\ rs.prev[x] = ls.prev[x]
    BY <1>2, <1>8, BuffersAre
  <2>4. ListIs(rs.next, rs.prev, ls.heads[j], ls.counts[j], g, j, e)
    BY <2>1, <2>2, <2>3, ListStays
  <2> QED  BY <1>9, <2>4
<1>12. \A x \in Buffers \ {b} : g[x] = 0 => rs.next[x] = 0 /\ rs.prev[x] = 0
  <2> SUFFICES ASSUME NEW x \in Buffers \ {b}, g[x] = 0 PROVE rs.next[x] = 0 /\ rs.prev[x] = 0
    OBVIOUS
  <2>1. h[x] = 0
    BY <1>8
  <2>2. ls.next[x] = 0 /\ ls.prev[x] = 0
    BY <2>1 DEF Linked
  <2>3. x # nb /\ x # pb
    BY <1>2, <1>7, <2>1, BuffersAre
  <2> QED  BY <1>8, <2>2, <2>3
<1>13. Linked(rs, g, {b})
  BY <1>6, <1>10, <1>11, <1>12 DEF Linked
<1> QED  BY <1>4, <1>13 DEF g

\* Buffer b comes to the list of its longest run, which m has, or to none.
LEMMA PutOn ==
  ASSUME NEW ls, NEW h \in [Buffers -> Lists \cup {0}], NEW b \in Buffers, h[b] = 0,
         Linked(ls, h, {b}), NEW m
  PROVE  Linked(Pushed(ls, b, m), [h EXCEPT ![b] = Longest(m)], {})
<1> DEFINE k == Longest(m)
           g == [h EXCEPT ![b] = k]
<1>1. /\ ls.next \in [Buffers -> Buffers \cup {0}] /\ ls.prev \in [Buffers -> Buffers \cup {0}]
      /\ ls.heads \in [Lists -> Buffers \cup {0}] /\ ls.counts \in [Lists -> Nat]
  BY DEF Linked, ListsRec
<1>2. k \in Lists \cup {0} /\ 0 \notin Lists /\ Lists \subseteq Nat
  <2>1. k \in 0 .. COUNT_ITEM
    BY LongestIs
  <2> QED  BY <2>1, BufAssumption DEF Lists
<1>3. PICK rs : rs = Pushed(ls, b, m)
  OBVIOUS
<1> HIDE DEF k
<1>4. \A x \in Buffers : g[x] = IF x = b THEN k ELSE h[x]
  OBVIOUS
<1> HIDE DEF g
<1>5. CASE k = 0
  <2>1. /\ rs = [ls EXCEPT !.next[b] = 0, !.prev[b] = 0]
    BY <1>3, <1>5 DEF Pushed, k
  <2>2. /\ rs.next = [ls.next EXCEPT ![b] = 0] /\ rs.prev = [ls.prev EXCEPT ![b] = 0]
        /\ rs.heads = ls.heads /\ rs.counts = ls.counts
        /\ rs = [next |-> rs.next, prev |-> rs.prev, heads |-> rs.heads, counts |-> rs.counts]
    BY <2>1 DEF Linked, ListsRec
  <2>3. rs \in ListsRec
    BY <1>1, <2>2 DEF ListsRec
  <2>4. \A x \in Buffers : /\ rs.next[x] = IF x = b THEN 0 ELSE ls.next[x]
                           /\ rs.prev[x] = IF x = b THEN 0 ELSE ls.prev[x]
    BY <1>1, <2>2
  <2>5. ASSUME NEW j \in Lists
        PROVE  \E e : ListIs(rs.next, rs.prev, rs.heads[j], rs.counts[j], g, j, e)
    <3>1. PICK e : ListIs(ls.next, ls.prev, ls.heads[j], ls.counts[j], h, j, e)
      BY DEF Linked
    <3>2. \A x \in Buffers : h[x] = j <=> g[x] = j
      BY <1>2, <1>4, <1>5
    <3>3. \A x \in Buffers : h[x] = j => rs.next[x] = ls.next[x] /\ rs.prev[x] = ls.prev[x]
      BY <1>2, <2>4
    <3>4. ListIs(rs.next, rs.prev, ls.heads[j], ls.counts[j], g, j, e)
      BY <3>1, <3>2, <3>3, ListStays
    <3> QED  BY <2>2, <3>4
  <2>6. \A x \in Buffers : g[x] = 0 => rs.next[x] = 0 /\ rs.prev[x] = 0
    BY <1>4, <2>4 DEF Linked
  <2>7. Linked(rs, g, {})
    BY <2>3, <2>5, <2>6 DEF Linked
  <2> QED  BY <1>3, <2>7 DEF g, k
<1>6. CASE k # 0
  <2> DEFINE a == ls.heads[k]
  <2>1. k \in Lists
    BY <1>2, <1>6
  <2>2. /\ rs.next = [ls.next EXCEPT ![b] = a]
        /\ rs.prev = [x \in Buffers |-> IF x = a THEN b ELSE [ls.prev EXCEPT ![b] = 0][x]]
        /\ rs.heads = [ls.heads EXCEPT ![k] = b]
        /\ rs.counts = [ls.counts EXCEPT ![k] = ls.counts[k] + 1]
        /\ rs = [next |-> rs.next, prev |-> rs.prev, heads |-> rs.heads, counts |-> rs.counts]
    <3>1. ls = [next |-> ls.next, prev |-> ls.prev, heads |-> ls.heads, counts |-> ls.counts]
      BY DEF Linked, ListsRec
    <3> QED  BY <1>1, <1>3, <1>6, <2>1, <3>1 DEF Pushed, k
  <2>3. a \in Buffers \cup {0}
    BY <1>1, <2>1
  <2>4. PICK f : ListIs(ls.next, ls.prev, a, ls.counts[k], h, k, f)
    BY <2>1 DEF Linked
  <2>5. a # 0 => a \in Buffers /\ h[a] = k
    BY <1>1, <2>1, <2>4 DEF ListIs
  <2> HIDE DEF a
  <2>6. \A x \in Buffers : /\ rs.next[x] = IF x = b THEN a ELSE ls.next[x]
                           /\ rs.prev[x] = IF x = a THEN b ELSE IF x = b THEN 0 ELSE ls.prev[x]
    BY <1>1, <2>2
  <2>7. rs \in ListsRec
    <3>1. rs.prev \in [Buffers -> Buffers \cup {0}] /\ rs.next \in [Buffers -> Buffers \cup {0}]
      BY <1>1, <2>2, <2>3
    <3>2. rs.heads \in [Lists -> Buffers \cup {0}]
      BY <1>1, <2>2, ZenonT(40)
    <3>3. rs.counts \in [Lists -> Nat]
      BY <1>1, <2>1, <2>2
    <3> QED  BY <2>2, <3>1, <3>2, <3>3 DEF ListsRec
  <2>8. /\ rs.heads[k] = b /\ rs.counts[k] = ls.counts[k] + 1
        /\ \A j \in Lists \ {k} : rs.heads[j] = ls.heads[j] /\ rs.counts[j] = ls.counts[j]
    BY <1>1, <2>1, <2>2
  <2>9. \E e : ListIs(rs.next, rs.prev, rs.heads[k], rs.counts[k], g, k, e)
    <3>1. h[b] # k /\ \A x \in Buffers : g[x] = k <=> h[x] = k \/ x = b
      BY <1>4, <1>6
    <3>2. \E e : ListIs(rs.next, rs.prev, b, ls.counts[k] + 1, g, k, e)
      <4>1. Relinks(ls.next, ls.prev, b, a, rs.next, rs.prev)
        BY <2>6 DEF Relinks
      <4> QED  BY <2>4, <3>1, <4>1, ListLonger
    <3> QED  BY <2>8, <3>2
  <2>10. ASSUME NEW j \in Lists \ {k}
         PROVE  \E e : ListIs(rs.next, rs.prev, rs.heads[j], rs.counts[j], g, j, e)
    <3>1. PICK e : ListIs(ls.next, ls.prev, ls.heads[j], ls.counts[j], h, j, e)
      BY DEF Linked
    <3>2. \A x \in Buffers : h[x] = j <=> g[x] = j
      BY <1>2, <1>4
    <3>3. \A x \in Buffers : h[x] = j => rs.next[x] = ls.next[x] /\ rs.prev[x] = ls.prev[x]
      BY <1>2, <2>5, <2>6, BuffersAre
    <3>4. ListIs(rs.next, rs.prev, ls.heads[j], ls.counts[j], g, j, e)
      BY <3>1, <3>2, <3>3, ListStays
    <3> QED  BY <2>8, <3>4
  <2>11. \A x \in Buffers : g[x] = 0 => rs.next[x] = 0 /\ rs.prev[x] = 0
    <3> SUFFICES ASSUME NEW x \in Buffers, g[x] = 0 PROVE rs.next[x] = 0 /\ rs.prev[x] = 0
      OBVIOUS
    <3>1. x # b /\ h[x] = 0 /\ x # a
      BY <1>4, <1>6, <2>5, BuffersAre
    <3> QED  BY <2>6, <3>1 DEF Linked
  <2>12. Linked(rs, g, {})
    BY <2>7, <2>9, <2>10, <2>11 DEF Linked
  <2> QED  BY <1>3, <2>12 DEF g, k
<1> QED  BY <1>5, <1>6

\* A chunk of new buffers, where no buffer is free as a whole.
InChunk(x, k) == x \in FirstOf(k) .. FirstOf(k + 1) - 1

LEMMA ChunkIs ==
  ASSUME NEW k \in 1 .. MaxChunks
  PROVE  /\ FirstOf(k) \in Buffers /\ FirstOf(k + 1) = FirstOf(k) + BufChunk
         /\ FirstOf(k) = (k - 1) * BufChunk + 1 /\ FirstOf(k + 1) = k * BufChunk + 1
         /\ (k - 1) * BufChunk \in Nat /\ k * BufChunk \in Nat
         /\ \A x : InChunk(x, k) => x \in Buffers
<1>1. BufChunk \in Nat \ {0} /\ MaxChunks \in Nat /\ k \in Nat \ {0} /\ k <= MaxChunks
  BY BufAssumption
<1>2. /\ k * BufChunk \in Nat /\ (k - 1) * BufChunk \in Nat /\ MaxChunks * BufChunk \in Nat
      /\ k * BufChunk = (k - 1) * BufChunk + BufChunk
  BY <1>1
<1>3. k * BufChunk <= MaxChunks * BufChunk
  <2>1. \A p, q, s \in Nat : p <= q => p * s <= q * s
    OBVIOUS
  <2> QED  BY <1>1, <2>1
<1>4. FirstOf(k) = (k - 1) * BufChunk + 1 /\ FirstOf(k + 1) = k * BufChunk + 1
  BY <1>1 DEF FirstOf
<1>5. FirstOf(k) \in Buffers
  BY <1>1, <1>2, <1>3, <1>4 DEF Buffers
<1>6. ASSUME NEW x, InChunk(x, k) PROVE x \in Buffers
  BY <1>1, <1>2, <1>3, <1>4, <1>6 DEF Buffers, InChunk
<1>7. FirstOf(k + 1) = FirstOf(k) + BufChunk
  BY <1>1, <1>2, <1>4
<1> QED  BY <1>2, <1>4, <1>5, <1>6, <1>7

LEMMA ChunkAdded ==
  ASSUME NEW ls, NEW h \in [Buffers -> Lists \cup {0}], Linked(ls, h, {}),
         NEW k \in 1 .. MaxChunks, ls.heads[COUNT_ITEM] = 0,
         \A x \in Buffers : InChunk(x, k) => h[x] = 0
  PROVE  Linked(WithChunk(ls, k), [x \in Buffers |-> IF InChunk(x, k) THEN COUNT_ITEM ELSE h[x]], {})
<1> DEFINE g == [x \in Buffers |-> IF InChunk(x, k) THEN COUNT_ITEM ELSE h[x]]
           a == FirstOf(k)
           last == a + BufChunk - 1
<1>1. /\ ls.next \in [Buffers -> Buffers \cup {0}] /\ ls.prev \in [Buffers -> Buffers \cup {0}]
      /\ ls.heads \in [Lists -> Buffers \cup {0}] /\ ls.counts \in [Lists -> Nat]
  BY DEF Linked, ListsRec
<1>2. /\ BufChunk \in Nat \ {0} /\ COUNT_ITEM \in Lists /\ 0 \notin Lists /\ COUNT_ITEM # 0
  BY BufAssumption DEF Lists
<1>3. /\ a \in Buffers /\ a \in Nat /\ FirstOf(k + 1) = a + BufChunk
      /\ \A x : InChunk(x, k) => x \in Buffers /\ x \in Nat
  BY ChunkIs, BuffersAre
<1>4. PICK rs : rs = WithChunk(ls, k)
  OBVIOUS
<1>5. \A x \in Buffers : g[x] = IF InChunk(x, k) THEN COUNT_ITEM ELSE h[x]
  OBVIOUS
<1> HIDE DEF a, g
<1>6. \A x : InChunk(x, k) <=> x \in a .. last
  BY <1>2, <1>3 DEF InChunk, a
<1>7. /\ rs.next = [x \in Buffers |-> IF x \in a .. last - 1 THEN x + 1 ELSE ls.next[x]]
      /\ rs.prev = [x \in Buffers |-> IF x \in a + 1 .. last THEN x - 1 ELSE ls.prev[x]]
      /\ rs.heads = [ls.heads EXCEPT ![COUNT_ITEM] = a]
      /\ rs.counts = [ls.counts EXCEPT ![COUNT_ITEM] = BufChunk]
      /\ rs = [next |-> rs.next, prev |-> rs.prev, heads |-> rs.heads, counts |-> rs.counts]
  <2>1. ls = [next |-> ls.next, prev |-> ls.prev, heads |-> ls.heads, counts |-> ls.counts]
    BY DEF Linked, ListsRec
  <2>2. FirstOf(k + 1) - 2 = last - 1 /\ FirstOf(k + 1) - 1 = last
    BY <1>2, <1>3
  <2> QED  BY <1>4, <2>1, <2>2 DEF WithChunk, a
<1>8. \A x \in a .. last : x \in Buffers /\ h[x] = 0 /\ ls.next[x] = 0 /\ ls.prev[x] = 0
  BY <1>3, <1>6 DEF Linked
<1>9. /\ \A x \in a .. last : /\ rs.next[x] = IF x < last THEN x + 1 ELSE 0
                              /\ rs.prev[x] = IF x > a THEN x - 1 ELSE 0
      /\ \A x \in Buffers : x \notin a .. last => rs.next[x] = ls.next[x] /\ rs.prev[x] = ls.prev[x]
  <2>1. ASSUME NEW x \in a .. last
        PROVE  /\ rs.next[x] = IF x < last THEN x + 1 ELSE 0
               /\ rs.prev[x] = IF x > a THEN x - 1 ELSE 0
    <3>1. x \in Buffers /\ ls.next[x] = 0 /\ ls.prev[x] = 0
      BY <1>8
    <3>2. (x \in a .. last - 1 <=> x < last) /\ (x \in a + 1 .. last <=> x > a)
      BY <1>2, <1>3
    <3> QED  BY <1>7, <3>1, <3>2
  <2>2. ASSUME NEW x \in Buffers, x \notin a .. last
        PROVE  rs.next[x] = ls.next[x] /\ rs.prev[x] = ls.prev[x]
    <3>1. x \notin a .. last - 1 /\ x \notin a + 1 .. last
      BY <1>2, <1>3, <2>2
    <3> QED  BY <1>7, <3>1
  <2> QED  BY <2>1, <2>2
<1>10. rs \in ListsRec
  <2>1. \A x \in a .. last - 1 : x + 1 \in Buffers
    <3> TAKE x \in a .. last - 1
    <3>1. x + 1 \in a .. last
      BY <1>2, <1>3
    <3> QED  BY <1>8, <3>1
  <2>2. \A x \in a + 1 .. last : x - 1 \in Buffers
    <3> TAKE x \in a + 1 .. last
    <3>1. x - 1 \in a .. last
      BY <1>2, <1>3
    <3> QED  BY <1>8, <3>1
  <2>3. rs.next \in [Buffers -> Buffers \cup {0}]
    BY <1>1, <1>7, <2>1
  <2>4. rs.prev \in [Buffers -> Buffers \cup {0}]
    BY <1>1, <1>7, <2>2
  <2>5. rs.heads \in [Lists -> Buffers \cup {0}] /\ rs.counts \in [Lists -> Nat]
    BY <1>1, <1>2, <1>3, <1>7
  <2> QED  BY <1>7, <2>3, <2>4, <2>5 DEF ListsRec
<1>11. /\ rs.heads[COUNT_ITEM] = a /\ rs.counts[COUNT_ITEM] = BufChunk
       /\ \A j \in Lists \ {COUNT_ITEM} : rs.heads[j] = ls.heads[j] /\ rs.counts[j] = ls.counts[j]
  BY <1>1, <1>2, <1>7
<1>12. \E e : ListIs(rs.next, rs.prev, rs.heads[COUNT_ITEM], rs.counts[COUNT_ITEM], g, COUNT_ITEM, e)
  <2>1. PICK f : ListIs(ls.next, ls.prev, ls.heads[COUNT_ITEM], ls.counts[COUNT_ITEM], h, COUNT_ITEM, f)
    BY <1>2 DEF Linked
  <2>2. \A x \in Buffers : h[x] # COUNT_ITEM
    BY <2>1, NeighboursOf
  <2>3. \A x \in a .. a + BufChunk - 1 : x \in Buffers
    BY <1>8
  <2>4. \A x \in a .. a + BufChunk - 1 : rs.next[x] = IF x < a + BufChunk - 1 THEN x + 1 ELSE 0
    BY <1>9
  <2>5. \A x \in a .. a + BufChunk - 1 : rs.prev[x] = IF x > a THEN x - 1 ELSE 0
    BY <1>9
  <2>6. \A x \in Buffers : g[x] = COUNT_ITEM <=> h[x] = COUNT_ITEM \/ x \in a .. a + BufChunk - 1
    BY <1>5, <1>6
  <2>7. \E e : ListIs(rs.next, rs.prev, a, BufChunk, g, COUNT_ITEM, e)
    BY <1>2, <1>3, <2>2, <2>3, <2>4, <2>5, <2>6, ListOfChunk
  <2> QED  BY <1>11, <2>7
<1>13. ASSUME NEW j \in Lists \ {COUNT_ITEM}
       PROVE  \E e : ListIs(rs.next, rs.prev, rs.heads[j], rs.counts[j], g, j, e)
  <2>1. PICK e : ListIs(ls.next, ls.prev, ls.heads[j], ls.counts[j], h, j, e)
    BY DEF Linked
  <2>2. \A x \in Buffers : h[x] = j <=> g[x] = j
    BY <1>2, <1>5
  <2>3. \A x \in Buffers : h[x] = j => rs.next[x] = ls.next[x] /\ rs.prev[x] = ls.prev[x]
    BY <1>2, <1>8, <1>9
  <2>4. ListIs(rs.next, rs.prev, ls.heads[j], ls.counts[j], g, j, e)
    BY <2>1, <2>2, <2>3, ListStays
  <2> QED  BY <1>11, <2>4
<1>14. \A x \in Buffers : g[x] = 0 => rs.next[x] = 0 /\ rs.prev[x] = 0
  BY <1>2, <1>5, <1>6, <1>9 DEF Linked
<1>15. Linked(rs, g, {})
  BY <1>10, <1>12, <1>13, <1>14 DEF Linked
<1> QED  BY <1>4, <1>15 DEF g

-----------------------------------------------------------------------------
\* What is found by following the links from the head of a list.
LEMMA ListLength ==
  ASSUME NEW n \in Nat, NEW f \in [1 .. n -> Buffers],
         \A i, j \in 1 .. n : f[i] = f[j] => i = j
  PROVE  /\ Cardinality({f[i] : i \in 1 .. n}) = n
         /\ n <= MaxChunks * BufChunk
<1> DEFINE S == {f[i] : i \in 1 .. n}
           M == MaxChunks * BufChunk
<1>1. M \in Nat
  BY BufAssumption
<1>2. IsFiniteSet(Buffers) /\ Cardinality(Buffers) = M
  <2> HIDE DEF M
  <2>1. IsFiniteSet(1 .. M) /\ Cardinality(1 .. M) = IF 1 > M THEN 0 ELSE M - 1 + 1
    BY <1>1, FS_Interval
  <2>2. Buffers = 1 .. M
    BY DEF Buffers, M
  <2> QED  BY <1>1, <2>1, <2>2
<1>3. f \in Bijection(1 .. n, S)
  <2>1. f \in [1 .. n -> S] /\ \A x \in S : \E i \in 1 .. n : f[i] = x
    OBVIOUS
  <2> HIDE DEF S
  <2>2. f \in Injection(1 .. n, S)
    BY <2>1 DEF Injection, IsInjective
  <2>3. f \in Surjection(1 .. n, S)
    BY <2>1 DEF Surjection
  <2> QED  BY <2>2, <2>3 DEF Bijection
<1>4. IsFiniteSet(1 .. n) /\ Cardinality(1 .. n) = n
  <2>1. IsFiniteSet(1 .. n) /\ Cardinality(1 .. n) = IF 1 > n THEN 0 ELSE n - 1 + 1
    BY FS_Interval
  <2> QED  BY <2>1
<1>5. Cardinality(S) = n
  <2>1. ExistsBijection(1 .. n, S)
    BY <1>3 DEF ExistsBijection
  <2> HIDE DEF S
  <2> QED  BY <1>4, <2>1, FS_Bijection
<1>6. S \subseteq Buffers
  OBVIOUS
<1>7. n <= M
  BY <1>2, <1>5, <1>6, FS_Subset
<1> QED  BY <1>5, <1>7

\* A list goes over the buffers that belong to it, which its count counts.
LEMMA OnListIs ==
  ASSUME NEW k \in Lists, NEW h, NEW f, ListIs(next, prev, heads[k], counts[k], h, k, f)
  PROVE  OnList(k) = {b \in Buffers : h[b] = k} /\ counts[k] = Cardinality(OnList(k))
<1> DEFINE n == counts[k]
           path == [i \in Buffers |-> IF i <= n THEN f[i] ELSE 0]
           Walks(g) == g = [i \in Buffers |-> IF i = 1 THEN heads[k]
                                              ELSE LET b == g[i - 1] IN IF b = 0 THEN 0 ELSE next[b]]
<1>1. /\ n \in Nat /\ f \in [1 .. n -> Buffers]
      /\ heads[k] = IF n = 0 THEN 0 ELSE f[1]
      /\ \A i \in 1 .. n : h[f[i]] = k /\ next[f[i]] = IF i < n THEN f[i + 1] ELSE 0
      /\ \A b \in Buffers : h[b] = k => \E i \in 1 .. n : f[i] = b
      /\ \A i, j \in 1 .. n : f[i] = f[j] => i = j
  BY DEF ListIs
<1> HIDE DEF n
<1>2. Cardinality({f[i] : i \in 1 .. n}) = n /\ n <= MaxChunks * BufChunk
  BY <1>1, ListLength
<1>3. \A i \in 1 .. n : i \in Buffers
  <2>1. MaxChunks * BufChunk \in Nat
    BY BufAssumption
  <2> QED  BY <1>1, <1>2, <2>1 DEF Buffers
<1>4. \A i \in Buffers : i \in Nat /\ i >= 1 /\ (i # 1 => i - 1 \in Buffers)
  <2>1. MaxChunks * BufChunk \in Nat
    BY BufAssumption
  <2> QED  BY <2>1 DEF Buffers
<1>5. \A i \in Buffers : path[i] = IF i = 1 THEN heads[k]
                                   ELSE LET b == path[i - 1] IN IF b = 0 THEN 0 ELSE next[b]
  <2> TAKE i \in Buffers
  <2>1. CASE i = 1
    BY <1>1, <2>1
  <2>2. CASE i # 1
    <3>1. i - 1 \in Buffers /\ i - 1 >= 1 /\ i \in Nat
      BY <1>4, <2>2
    <3>2. path[i - 1] = IF i - 1 <= n THEN f[i - 1] ELSE 0
      BY <3>1
    <3>3. CASE i - 1 <= n
      <4>1. i - 1 \in 1 .. n
        BY <1>1, <3>1, <3>3
      <4>2. /\ f[i - 1] # 0 /\ next[f[i - 1]] = IF i - 1 < n THEN f[i - 1 + 1] ELSE 0
        BY <1>1, <4>1, BuffersAre
      <4>3. i - 1 + 1 = i /\ (i - 1 < n <=> i <= n)
        BY <1>1, <3>1
      <4> QED  BY <2>2, <3>2, <3>3, <4>2, <4>3
    <3>4. CASE ~ (i - 1 <= n)
      BY <1>1, <2>2, <3>1, <3>2, <3>4
    <3> QED  BY <3>3, <3>4
  <2> QED  BY <2>1, <2>2
<1>6. Walks(path)
  BY <1>5
<1>7. ASSUME NEW g, Walks(g) PROVE g = path
  <2> DEFINE wrong == {i \in Buffers : g[i] # path[i]}
  <2>1. \A i \in Buffers : g[i] = IF i = 1 THEN heads[k]
                                  ELSE LET b == g[i - 1] IN IF b = 0 THEN 0 ELSE next[b]
    BY <1>7
  <2>2. DOMAIN g = Buffers /\ g = [i \in Buffers |-> g[i]]
    BY <1>7
  <2>3. DOMAIN path = Buffers /\ path = [i \in Buffers |-> path[i]]
    OBVIOUS
  <2> HIDE DEF path, Walks
  <2>4. wrong = {}
    <3> SUFFICES ASSUME wrong # {} PROVE FALSE
      OBVIOUS
    <3>1. wrong \in SUBSET Nat
      BY <1>4
    <3>2. PICK i \in wrong : \A j \in wrong : i <= j
      BY <3>1, Earliest
    <3>3. i \in Buffers /\ i # 1
      BY <1>5, <2>1, <3>2
    <3>4. i - 1 \in Buffers /\ ~ (i <= i - 1)
      BY <1>4, <3>3
    <3>5. g[i - 1] = path[i - 1]
      BY <3>2, <3>4
    <3> QED  BY <1>5, <2>1, <3>2, <3>3, <3>5
  <2> QED  BY <2>2, <2>3, <2>4
<1>8. OnList(k) = {path[i] : i \in Buffers} \ {0}
  <2>1. (CHOOSE g : Walks(g)) = path
    <3>1. Walks(CHOOSE g : Walks(g))
      BY <1>6, Zenon
    <3> HIDE DEF Walks, path
    <3> QED  BY <1>7, <3>1
  <2>2. OnList(k) = {(CHOOSE g : Walks(g))[i] : i \in Buffers} \ {0}
    BY DEF OnList
  <2> HIDE DEF path, Walks
  <2> QED  BY <2>1, <2>2, Zenon
<1>9. OnList(k) = {f[i] : i \in 1 .. n}
  <2>1. \A i \in 1 .. n : path[i] = f[i] /\ f[i] # 0
    BY <1>1, <1>3, BuffersAre
  <2>2. \A i \in Buffers : path[i] # 0 => i \in 1 .. n
    BY <1>1, <1>4
  <2> HIDE DEF path
  <2> QED  BY <1>3, <1>8, <2>1, <2>2
<1>10. {f[i] : i \in 1 .. n} = {b \in Buffers : h[b] = k}
  BY <1>1
<1> QED  BY <1>2, <1>9, <1>10 DEF n

-----------------------------------------------------------------------------
(* The items. *)

ItemRec == [buf : Nat, pos : Int, tek : Int, size : Int]

\* An item of whole units, in one of the first top buffers.
ItemOK(it, top) ==
  /\ it.buf \in 1 .. top /\ it.tek \in 0 .. it.size
  /\ \E n \in Lists : it.size = n * MIN_SIZE_ITEM - Header /\ it.pos \in 0 .. COUNT_ITEM - n

Takes(it, b, u) == it.buf = b /\ u \in UnitsOf(it)

Held(ch, o, i) == o \in Owners /\ i \in 1 .. Len(ch[o])

Has(ch, o, i, b, u) == Held(ch, o, i) /\ Takes(ch[o][i], b, u)

\* The items of the chains ch are right, no unit is taken by two of them, and ms
\* has the units that are taken.
ItemsAre(ch, ms, top) ==
  /\ \A o, i : Held(ch, o, i) => ItemOK(ch[o][i], top)
  /\ \A o, p, i, j, b, u : Has(ch, o, i, b, u) /\ Has(ch, p, j, b, u) => o = p /\ i = j
  /\ \A b \in Buffers : \A u : u \in ms[b] <=> \E o, i : Has(ch, o, i, b, u)

\* What the calls do to the chains.
Appended(ch, o, it, d) == d = [ch EXCEPT ![o] = Append(@, it)]
Shortened(ch, o, d) == d = [ch EXCEPT ![o] = SubSeq(@, 1, Len(@) - 1)]
Filled(ch, o, k, t, d) == d = [ch EXCEPT ![o][k].tek = t]

\* An item is added to o's chain, of units that no other takes.
LEMMA ItemAdded ==
  ASSUME NEW ch \in [Owners -> Seq(ItemRec)], NEW ms, NEW top \in Nat, ItemsAre(ch, ms, top),
         NEW o \in Owners, NEW it \in ItemRec, NEW ms2, NEW top2 \in Nat, top <= top2, ItemOK(it, top2),
         it.buf \in Buffers, \A u \in UnitsOf(it) : u \notin ms[it.buf],
         \A b \in Buffers : \A u : u \in ms2[b] <=> u \in ms[b] \/ Takes(it, b, u),
         NEW d, Appended(ch, o, it, d)
  PROVE  d \in [Owners -> Seq(ItemRec)] /\ ItemsAre(d, ms2, top2)
<1>1. d = [ch EXCEPT ![o] = Append(@, it)]
  BY DEF Appended
<1> DEFINE n == Len(ch[o]) + 1
<1>2. \A p \in Owners : ch[p] \in Seq(ItemRec) /\ Len(ch[p]) \in Nat
  OBVIOUS
<1>3. /\ d \in [Owners -> Seq(ItemRec)] /\ Len(d[o]) = n /\ d[o][n] = it
      /\ \A i \in 1 .. Len(ch[o]) : d[o][i] = ch[o][i]
      /\ \A p \in Owners \ {o} : d[p] = ch[p]
  BY <1>1, <1>2
<1>4. \A p, i : Held(d, p, i) <=> Held(ch, p, i) \/ (p = o /\ i = n)
  BY <1>2, <1>3 DEF Held
<1>5. ~ Held(ch, o, n)
  BY <1>2 DEF Held
<1>6. \A p, i : Held(ch, p, i) => d[p][i] = ch[p][i]
  BY <1>3 DEF Held
<1> HIDE DEF n
<1>7. \A p, i : Held(d, p, i) => ItemOK(d[p][i], top2)
  <2>1. \A p, i : Held(ch, p, i) => ItemOK(ch[p][i], top)
    BY DEF ItemsAre
  <2>2. \A x \in 1 .. top : x \in 1 .. top2
    OBVIOUS
  <2>3. \A p, i : Held(ch, p, i) => ItemOK(ch[p][i], top2)
    BY <2>1, <2>2 DEF ItemOK
  <2>4. ASSUME NEW p, NEW i, Held(d, p, i) PROVE ItemOK(d[p][i], top2)
    <3>1. CASE Held(ch, p, i)
      BY <1>6, <2>3, <3>1
    <3>2. CASE p = o /\ i = n
      BY <1>3, <3>2
    <3> QED  BY <1>4, <2>4, <3>1, <3>2
  <2> QED  BY <2>4
<1>8. \A p, i, b, u : Has(d, p, i, b, u) <=> Has(ch, p, i, b, u) \/ (p = o /\ i = n /\ Takes(it, b, u))
  BY <1>3, <1>4, <1>5, <1>6 DEF Has
<1>9. \A b \in Buffers : \A u : u \in ms[b] <=> \E p, i : Has(ch, p, i, b, u)
  BY DEF ItemsAre
<1>10. \A p, i, b, u : Has(ch, p, i, b, u) => ~ Takes(it, b, u)
  <2> SUFFICES ASSUME NEW p, NEW i, NEW b, NEW u, Has(ch, p, i, b, u), Takes(it, b, u)
               PROVE  FALSE
    OBVIOUS
  <2>1. b = it.buf /\ b \in Buffers /\ u \in UnitsOf(it)
    BY DEF Takes
  <2>2. u \in ms[b]
    BY <1>9, <2>1
  <2> QED  BY <2>1, <2>2
<1>11. \A p, q, i, j, b, u : Has(d, p, i, b, u) /\ Has(d, q, j, b, u) => p = q /\ i = j
  <2>1. \A p, q, i, j, b, u : Has(ch, p, i, b, u) /\ Has(ch, q, j, b, u) => p = q /\ i = j
    BY DEF ItemsAre
  <2> QED  BY <1>8, <1>10, <2>1
<1>12. \A b \in Buffers : \A u : u \in ms2[b] <=> \E p, i : Has(d, p, i, b, u)
  BY <1>8, <1>9
<1>13. ItemsAre(d, ms2, top2)
  BY <1>7, <1>11, <1>12 DEF ItemsAre
<1> QED  BY <1>1, <1>3, <1>13

\* The last item of o's chain is given back.
LEMMA ItemGivenBack ==
  ASSUME NEW ch \in [Owners -> Seq(ItemRec)], NEW ms, NEW top \in Nat, ItemsAre(ch, ms, top),
         NEW o \in Owners, ch[o] # <<>>, NEW it, it = ch[o][Len(ch[o])], NEW ms2,
         \A b \in Buffers : \A u : u \in ms2[b] <=> u \in ms[b] /\ ~ Takes(it, b, u),
         NEW d, Shortened(ch, o, d)
  PROVE  d \in [Owners -> Seq(ItemRec)] /\ ItemsAre(d, ms2, top)
<1>1. d = [ch EXCEPT ![o] = SubSeq(@, 1, Len(@) - 1)]
  BY DEF Shortened
<1> DEFINE n == Len(ch[o])
<1>2. /\ \A p \in Owners : ch[p] \in Seq(ItemRec) /\ Len(ch[p]) \in Nat
      /\ n \in Nat \ {0}
  OBVIOUS
<1>3. /\ d \in [Owners -> Seq(ItemRec)] /\ Len(d[o]) = n - 1
      /\ \A i \in 1 .. n - 1 : d[o][i] = ch[o][i]
      /\ \A p \in Owners \ {o} : d[p] = ch[p]
  <2>1. PICK s : s = SubSeq(ch[o], 1, n - 1)
    OBVIOUS
  <2>2. s \in Seq(ItemRec) /\ Len(s) = n - 1 /\ \A i \in 1 .. n - 1 : s[i] = ch[o][i]
    <3>1. \A i \in 1 .. n - 1 : ch[o][i] \in ItemRec
      BY <1>2
    <3>2. 1 \in Int /\ n - 1 \in Int
      BY <1>2
    <3> HIDE DEF n
    <3>3. /\ s \in Seq(ItemRec) /\ Len(s) = IF 1 <= n - 1 THEN n - 1 - 1 + 1 ELSE 0
          /\ \A i \in 1 .. n - 1 - 1 + 1 : s[i] = ch[o][1 + i - 1]
      BY <2>1, <3>1, <3>2, SubSeqProperties
    <3> QED  BY <1>2, <3>3
  <2>3. d = [ch EXCEPT ![o] = s]
    BY <1>1, <2>1
  <2> QED  BY <2>2, <2>3
<1>4. \A p, i : Held(d, p, i) <=> Held(ch, p, i) /\ ~ (p = o /\ i = n)
  <2>1. \A p, i : p # o => (Held(d, p, i) <=> Held(ch, p, i))
    BY <1>2, <1>3 DEF Held
  <2>2. \A i : i \in 1 .. n - 1 <=> i \in 1 .. n /\ i # n
    BY <1>2
  <2>3. \A i : Held(d, o, i) <=> Held(ch, o, i) /\ i # n
    BY <1>3, <2>2 DEF Held
  <2> QED  BY <2>1, <2>3
<1>5. Held(ch, o, n)
  BY <1>2 DEF Held
<1>6. \A p, i : Held(d, p, i) => d[p][i] = ch[p][i]
  BY <1>2, <1>3 DEF Held
<1>7. it = ch[o][n]
  OBVIOUS
<1> HIDE DEF n
<1>8. \A p, i, b, u : Has(d, p, i, b, u) <=> Has(ch, p, i, b, u) /\ ~ (p = o /\ i = n)
  BY <1>4, <1>6 DEF Has
<1>9. \A p, i : Held(d, p, i) => ItemOK(d[p][i], top)
  <2>1. \A p, i : Held(ch, p, i) => ItemOK(ch[p][i], top)
    BY DEF ItemsAre
  <2> QED  BY <1>4, <1>6, <2>1
<1>10. \A p, q, i, j, b, u : Has(ch, p, i, b, u) /\ Has(ch, q, j, b, u) => p = q /\ i = j
  BY DEF ItemsAre
<1>11. \A p, q, i, j, b, u : Has(d, p, i, b, u) /\ Has(d, q, j, b, u) => p = q /\ i = j
  BY <1>8, <1>10
<1>12. \A b \in Buffers : \A u : u \in ms2[b] <=> \E p, i : Has(d, p, i, b, u)
  <2>1. \A b \in Buffers : \A u : u \in ms[b] <=> \E p, i : Has(ch, p, i, b, u)
    BY DEF ItemsAre
  <2>2. \A b, u : Takes(it, b, u) <=> Has(ch, o, n, b, u)
    BY <1>5, <1>7 DEF Has
  <2> QED  BY <1>8, <1>10, <2>1, <2>2
<1>13. ItemsAre(d, ms2, top)
  BY <1>9, <1>11, <1>12 DEF ItemsAre
<1> QED  BY <1>1, <1>3, <1>13

\* More of an item is filled.
LEMMA ItemFilled ==
  ASSUME NEW ch \in [Owners -> Seq(ItemRec)], NEW ms, NEW top \in Nat, ItemsAre(ch, ms, top),
         NEW o \in Owners, NEW k \in 1 .. Len(ch[o]), NEW t \in 0 .. ch[o][k].size,
         NEW d, Filled(ch, o, k, t, d)
  PROVE  /\ d \in [Owners -> Seq(ItemRec)] /\ ItemsAre(d, ms, top)
         /\ \A p \in Owners : Len(d[p]) = Len(ch[p])
<1>1. PICK it : it = [ch[o][k] EXCEPT !.tek = t]
  OBVIOUS
<1>2. d = [ch EXCEPT ![o] = [ch[o] EXCEPT ![k] = it]]
  BY <1>1 DEF Filled
<1>4. /\ \A p \in Owners : ch[p] \in Seq(ItemRec) /\ Len(ch[p]) \in Nat
      /\ ch[o][k] \in ItemRec
  OBVIOUS
<1>5. /\ it \in ItemRec /\ it.buf = ch[o][k].buf /\ it.pos = ch[o][k].pos /\ it.size = ch[o][k].size
      /\ it.tek = t
  <2>1. t \in Int
    BY <1>4 DEF ItemRec
  <2> QED  BY <1>1, <1>4, <2>1 DEF ItemRec
<1>6. /\ d \in [Owners -> Seq(ItemRec)] /\ Len(d[o]) = Len(ch[o]) /\ d[o][k] = it
      /\ \A i \in 1 .. Len(ch[o]) : i # k => d[o][i] = ch[o][i]
      /\ \A p \in Owners \ {o} : d[p] = ch[p]
  <2>1. [ch[o] EXCEPT ![k] = it] \in Seq(ItemRec) /\ Len([ch[o] EXCEPT ![k] = it]) = Len(ch[o])
    BY <1>4, <1>5, ExceptSeq
  <2> QED  BY <1>2, <1>4, <1>5, <2>1
<1>7. \A p, i : Held(d, p, i) <=> Held(ch, p, i)
  BY <1>6 DEF Held
<1>8. \A p, i : Held(ch, p, i) => d[p][i] = IF p = o /\ i = k THEN it ELSE ch[p][i]
  BY <1>6 DEF Held
<1>9. \A b, u : Takes(it, b, u) <=> Takes(ch[o][k], b, u)
  BY <1>5 DEF Takes, UnitsOf
<1>10. \A p, i, b, u : Has(d, p, i, b, u) <=> Has(ch, p, i, b, u)
  BY <1>7, <1>8, <1>9 DEF Has
<1>11. \A p, i : Held(d, p, i) => ItemOK(d[p][i], top)
  <2>1. \A p, i : Held(ch, p, i) => ItemOK(ch[p][i], top)
    BY DEF ItemsAre
  <2>2. ItemOK(ch[o][k], top)
    BY <2>1 DEF Held
  <2>3. ItemOK(it, top)
    BY <1>5, <2>2 DEF ItemOK
  <2> QED  BY <1>7, <1>8, <2>1, <2>3
<1>12. ItemsAre(d, ms, top)
  <2>1. /\ \A p, q, i, j, b, u : Has(ch, p, i, b, u) /\ Has(ch, q, j, b, u) => p = q /\ i = j
        /\ \A b \in Buffers : \A u : u \in ms[b] <=> \E p, i : Has(ch, p, i, b, u)
    BY DEF ItemsAre
  <2> QED  BY <1>10, <1>11, <2>1 DEF ItemsAre
<1>13. \A p \in Owners : Len(d[p]) = Len(ch[p])
  BY <1>6
<1> QED  BY <1>6, <1>12, <1>13

-----------------------------------------------------------------------------
(* The invariant. *)

Home == [b \in Buffers |-> IF b <= chunks * BufChunk THEN Longest(mask[b]) ELSE 0]

PoolInv ==
  /\ chunks \in 1 .. MaxChunks
  /\ mask \in [Buffers -> SUBSET Int]
  /\ Linked(TheLists, Home, {})
  /\ chain \in [Owners -> Seq(ItemRec)]
  /\ ItemsAre(chain, mask, chunks * BufChunk)
  /\ freeing \subseteq {o \in Owners : chain[o] # <<>>}
  /\ refused = 0 \/ (refused \in Nat /\ chunks = MaxChunks /\ \A b \in Buffers : Longest(mask[b]) < refused)

LEMMA HomeIs == PoolInv => Home \in [Buffers -> Lists \cup {0}]
<1>1. \A b \in Buffers : Longest(mask[b]) \in Lists \cup {0}
  BY LongestIs, BufAssumption DEF Lists
<1> QED  BY <1>1 DEF Home

\* The lists after a step that gives them the links, heads and counts of ls.
LEMMA ListsNow ==
  ASSUME NEW ls, NEW h, NEW B, Linked(ls, h, B), NewLists(ls)
  PROVE  TheLists' = ls
BY DEF Linked, ListsRec, NewLists, TheLists

Rehomed(h, b, m, g) == g = [h EXCEPT ![b] = Longest(m)]

\* The head of a list goes to the list of the longest run that it has now.
LEMMA Moved ==
  ASSUME NEW ls, NEW h \in [Buffers -> Lists \cup {0}], Linked(ls, h, {}),
         NEW k \in Lists, ls.heads[k] # 0, NEW m, NEW b, b = ls.heads[k],
         NEW q, Rehomed(h, b, m, q)
  PROVE  b \in Buffers /\ h[b] = k /\ Linked(Pushed(Popped(ls, k), b, m), q, {})
<1>1. PICK f : ListIs(ls.next, ls.prev, ls.heads[k], ls.counts[k], h, k, f)
  BY DEF Linked
<1>2. b \in Buffers /\ h[b] = k
  <2>1. /\ ls.counts[k] \in Nat /\ f \in [1 .. ls.counts[k] -> Buffers] /\ ls.counts[k] # 0 /\ b = f[1]
        /\ \A i \in 1 .. ls.counts[k] : h[f[i]] = k
    BY <1>1 DEF ListIs
  <2>2. 1 \in 1 .. ls.counts[k]
    BY <2>1
  <2> QED  BY <2>1, <2>2
<1>3. ls.prev[b] = 0
  BY <1>1, <1>2, NeighboursOf
<1>4. Popped(ls, k) = OffList(ls, b, k)
  <2>1. /\ ls = [next |-> ls.next, prev |-> ls.prev, heads |-> ls.heads, counts |-> ls.counts]
        /\ ls.next \in [Buffers -> Buffers \cup {0}]
        /\ ls.heads \in [Lists -> Buffers \cup {0}] /\ ls.counts \in [Lists -> Nat]
    BY DEF Linked, ListsRec
  <2>2. [x \in Buffers |-> IF x = ls.prev[b] THEN ls.next[b] ELSE ls.next[x]] = ls.next
    BY <1>3, <2>1, BuffersAre
  <2>3. PICK ps : ps = Popped(ls, k)
    OBVIOUS
  <2>4. PICK os : os = OffList(ls, b, k)
    OBVIOUS
  <2>5. /\ ps.next = ls.next
        /\ ps.prev = [x \in Buffers |-> IF x = ls.next[b] THEN 0 ELSE ls.prev[x]]
        /\ ps.heads = [ls.heads EXCEPT ![k] = ls.next[b]]
        /\ ps.counts = [ls.counts EXCEPT ![k] = ls.counts[k] - 1]
        /\ ps = [next |-> ps.next, prev |-> ps.prev, heads |-> ps.heads, counts |-> ps.counts]
    BY <2>1, <2>3 DEF Popped
  <2>6. /\ os.next = [x \in Buffers |-> IF x = ls.prev[b] THEN ls.next[b] ELSE ls.next[x]]
        /\ os.prev = [x \in Buffers |-> IF x = ls.next[b] THEN ls.prev[b] ELSE ls.prev[x]]
        /\ os.heads = [ls.heads EXCEPT ![k] = IF ls.heads[k] = b THEN ls.next[b] ELSE ls.heads[k]]
        /\ os.counts = [ls.counts EXCEPT ![k] = ls.counts[k] - 1]
        /\ os = [next |-> os.next, prev |-> os.prev, heads |-> os.heads, counts |-> os.counts]
    BY <2>1, <2>4 DEF OffList
  <2>7. ps.next = os.next /\ ps.prev = os.prev /\ ps.heads = os.heads /\ ps.counts = os.counts
    BY <1>3, <2>2, <2>5, <2>6
  <2>8. ps = os
    BY <2>5, <2>6, <2>7, Zenon
  <2> QED  BY <2>3, <2>4, <2>8
<1>5. Linked(OffList(ls, b, k), [h EXCEPT ![b] = 0], {b})
  BY <1>2, TakenOff
<1>6. PICK g : g = [h EXCEPT ![b] = 0]
  OBVIOUS
<1>7. /\ g \in [Buffers -> Lists \cup {0}] /\ g[b] = 0
      /\ [g EXCEPT ![b] = Longest(m)] = [h EXCEPT ![b] = Longest(m)]
  BY <1>2, <1>6
<1>8. Linked(Pushed(OffList(ls, b, k), b, m), [g EXCEPT ![b] = Longest(m)], {})
  BY <1>2, <1>5, <1>6, <1>7, PutOn
<1> QED  BY <1>2, <1>4, <1>7, <1>8 DEF Rehomed

\* A buffer that something was freed in goes to the list of the longest run it has now.
LEMMA MovedBack ==
  ASSUME PoolInv, NEW b \in Buffers, b <= chunks * BufChunk, NEW m
  PROVE  Linked(Pushed(Unlinked(TheLists, b), b, m), [Home EXCEPT ![b] = Longest(m)], {})
<1>1. PICK ls : ls = TheLists
  OBVIOUS
<1>2. PICK h : h = Home
  OBVIOUS
<1>3. PICK k : k = Longest(mask[b])
  OBVIOUS
<1>4. Linked(ls, h, {}) /\ h \in [Buffers -> Lists \cup {0}]
  BY <1>1, <1>2, HomeIs DEF PoolInv
<1>5. h[b] = k /\ k \in Lists \cup {0}
  BY <1>2, <1>3, <1>4 DEF Home
<1>6. PICK us : us = Unlinked(ls, b)
  OBVIOUS
<1>7. PICK g : g = [h EXCEPT ![b] = 0]
  OBVIOUS
<1>8. /\ g \in [Buffers -> Lists \cup {0}] /\ g[b] = 0
      /\ [g EXCEPT ![b] = Longest(m)] = [h EXCEPT ![b] = Longest(m)]
  BY <1>4, <1>7
<1>9. Linked(us, g, {b})
  <2>1. CASE k = 0
    <3>1. us = ls
      BY <1>3, <1>6, <2>1 DEF Unlinked
    <3>2. g = h
      BY <1>4, <1>5, <1>7, <2>1
    <3>3. Linked(ls, h, {b})
      BY <1>4 DEF Linked
    <3> QED  BY <3>1, <3>2, <3>3
  <2>2. CASE k # 0
    <3>1. /\ ls = [next |-> ls.next, prev |-> ls.prev, heads |-> ls.heads, counts |-> ls.counts]
          /\ ls.heads \in [Lists -> Buffers \cup {0}] /\ ls.counts \in [Lists -> Nat]
          /\ k \in Lists
      BY <1>4, <1>5, <2>2 DEF Linked, ListsRec
    <3>2. PICK os : os = OffList(ls, b, k)
      OBVIOUS
    <3>3. /\ us.next = [x \in Buffers |-> IF x = ls.prev[b] THEN ls.next[b] ELSE ls.next[x]]
          /\ us.prev = [x \in Buffers |-> IF x = ls.next[b] THEN ls.prev[b] ELSE ls.prev[x]]
          /\ us.heads = [ls.heads EXCEPT ![k] = IF ls.heads[k] = b THEN ls.next[b] ELSE ls.heads[k]]
          /\ us.counts = [ls.counts EXCEPT ![k] = ls.counts[k] - 1]
          /\ us = [next |-> us.next, prev |-> us.prev, heads |-> us.heads, counts |-> us.counts]
      BY <1>3, <1>6, <2>2, <3>1 DEF Unlinked
    <3>4. /\ os.next = [x \in Buffers |-> IF x = ls.prev[b] THEN ls.next[b] ELSE ls.next[x]]
          /\ os.prev = [x \in Buffers |-> IF x = ls.next[b] THEN ls.prev[b] ELSE ls.prev[x]]
          /\ os.heads = [ls.heads EXCEPT ![k] = IF ls.heads[k] = b THEN ls.next[b] ELSE ls.heads[k]]
          /\ os.counts = [ls.counts EXCEPT ![k] = ls.counts[k] - 1]
          /\ os = [next |-> os.next, prev |-> os.prev, heads |-> os.heads, counts |-> os.counts]
      BY <3>1, <3>2 DEF OffList
    <3>5. us.next = os.next /\ us.prev = os.prev /\ us.heads = os.heads /\ us.counts = os.counts
      BY <3>3, <3>4
    <3>6. us = os
      BY <3>3, <3>4, <3>5
    <3>7. Linked(os, g, {b})
      BY <1>4, <1>5, <1>7, <3>1, <3>2, TakenOff
    <3> QED  BY <3>6, <3>7
  <2> QED  BY <2>1, <2>2
<1>10. Linked(Pushed(us, b, m), [g EXCEPT ![b] = Longest(m)], {})
  BY <1>8, <1>9, PutOn
<1> QED  BY <1>1, <1>2, <1>6, <1>8, <1>10

-----------------------------------------------------------------------------
(* Sizes. *)

LEMMA WholeUnits ==
  /\ \A x \in Nat, m \in Nat \ {0} : x \div m \in Nat /\ x < (x \div m + 1) * m
  /\ \A n \in Nat, m \in Nat \ {0} : (n * m) \div m = n
<1>1. ASSUME NEW x \in Nat, NEW m \in Nat \ {0} PROVE x \div m \in Nat /\ x < (x \div m + 1) * m
  OBVIOUS
<1>2. ASSUME NEW n \in Nat, NEW m \in Nat \ {0} PROVE (n * m) \div m = n
  OBVIOUS
<1> QED  BY <1>1, <1>2

LEMMA AlignedIs ==
  ASSUME NEW tek \in Nat, NEW void \in BOOLEAN, NEW len \in Lengths
  PROVE  /\ Aligned(tek, void) + len \in Nat /\ Asked(len, void) \in Nat
         /\ Aligned(tek, void) + len <= tek + Asked(len, void)
<1>1. Word \in Nat \ {0} /\ len \in Nat
  BY BufAssumption
<1>2. tek % Word \in 0 .. Word - 1
  BY <1>1
<1> QED  BY <1>1, <1>2 DEF Aligned, Asked

\* The units that are asked for have room for the bytes, and an item gives back
\* the units that it took.
LEMMA UnitsAre ==
  ASSUME NEW asked \in Nat
  PROVE  /\ UnitsFor(asked) \in Nat \ {0}
         /\ asked <= UnitsFor(asked) * MIN_SIZE_ITEM - Header
<1>1. MIN_SIZE_ITEM \in Nat \ {0} /\ Header \in Nat /\ Word \in Nat
  BY BufAssumption
<1>2. PICK x \in Nat : x = asked + Header + Word
  BY <1>1
<1>3. x \div MIN_SIZE_ITEM \in Nat /\ x < (x \div MIN_SIZE_ITEM + 1) * MIN_SIZE_ITEM
  BY <1>1, WholeUnits
<1>4. UnitsFor(asked) = x \div MIN_SIZE_ITEM + 1
  BY <1>2 DEF UnitsFor
<1>5. PICK y \in Nat : y = (x \div MIN_SIZE_ITEM + 1) * MIN_SIZE_ITEM
  BY <1>1, <1>3
<1>6. x < y
  BY <1>3, <1>5
<1> QED  BY <1>1, <1>2, <1>3, <1>4, <1>5, <1>6

LEMMA UnitsOfIs ==
  ASSUME NEW it, NEW n \in Lists, it.size = n * MIN_SIZE_ITEM - Header, it.pos \in Int
  PROVE  UnitsOf(it) = it.pos .. it.pos + n - 1 /\ UnitsBack(it) = n
<1>1. MIN_SIZE_ITEM \in Nat \ {0} /\ Header \in Nat /\ n \in Nat
  BY BufAssumption DEF Lists
<1>2. n * MIN_SIZE_ITEM \in Nat
  BY <1>1
<1>3. it.size + Header = n * MIN_SIZE_ITEM
  BY <1>1, <1>2
<1>4. (it.size + Header) \div MIN_SIZE_ITEM = n
  BY <1>1, <1>3, WholeUnits
<1> QED  BY <1>4 DEF UnitsOf, UnitsBack

-----------------------------------------------------------------------------
(* The steps. *)

LEMMA PoolStarts == BufInit => PoolInv
<1> SUFFICES ASSUME BufInit PROVE PoolInv
  OBVIOUS
<1> DEFINE none == [b \in Buffers |-> 0]
           empty == [k \in Lists |-> 0]
           bare == [next |-> none, prev |-> none, heads |-> empty, counts |-> empty]
<1>1. /\ mask = [b \in Buffers |-> {}] /\ chunks = 1 /\ chain = [o \in Owners |-> <<>>]
      /\ freeing = {} /\ refused = 0
      /\ TheLists = [next |-> WithChunk(bare, 1).next, prev |-> WithChunk(bare, 1).prev,
                     heads |-> WithChunk(bare, 1).heads, counts |-> WithChunk(bare, 1).counts]
  BY DEF BufInit, TheLists
<1>2. 1 \in 1 .. MaxChunks /\ COUNT_ITEM \in Lists /\ 0 \notin Lists
  BY BufAssumption DEF Lists
<1>3. Linked(bare, none, {}) /\ none \in [Buffers -> Lists \cup {0}]
  <2>1. bare \in ListsRec
    BY DEF ListsRec
  <2>2. \A k \in Lists : ListIs(none, none, 0, 0, none, k, <<>>)
    BY <1>2 DEF ListIs
  <2>3. \A k \in Lists : \E f : ListIs(bare.next, bare.prev, bare.heads[k], bare.counts[k], none, k, f)
    BY <2>2
  <2> QED  BY <2>1, <2>3 DEF Linked
<1>4. PICK ls : ls = WithChunk(bare, 1)
  OBVIOUS
<1>5. PICK h : h = [x \in Buffers |-> IF InChunk(x, 1) THEN COUNT_ITEM ELSE none[x]]
  OBVIOUS
<1>6. Linked(ls, h, {})
  <2>1. bare.heads[COUNT_ITEM] = 0 /\ \A x \in Buffers : InChunk(x, 1) => none[x] = 0
    BY <1>2
  <2> HIDE DEF bare, none
  <2> QED  BY <1>2, <1>3, <1>4, <1>5, <2>1, ChunkAdded
<1>7. TheLists = ls
  BY <1>1, <1>4, <1>6 DEF Linked, ListsRec
<1>8. Home = h
  <2>1. BufChunk \in Nat \ {0} /\ FirstOf(1) = 1 /\ FirstOf(1 + 1) = BufChunk + 1
    BY BufAssumption DEF FirstOf
  <2>2. \A x \in Buffers : InChunk(x, 1) <=> x <= chunks * BufChunk
    <3>1. \A x \in Buffers : x \in Nat /\ x # 0
      BY BuffersAre
    <3> QED  BY <1>1, <2>1, <3>1 DEF InChunk
  <2>3. \A x \in Buffers : Longest(mask[x]) = COUNT_ITEM
    BY <1>1, LongestFree
  <2> QED  BY <1>5, <2>2, <2>3 DEF Home
<1>9. ItemsAre(chain, mask, chunks * BufChunk)
  <2>1. \A o, i : ~ Held(chain, o, i)
    BY <1>1 DEF Held
  <2>2. \A o, i, b, u : ~ Has(chain, o, i, b, u)
    BY <2>1 DEF Has
  <2>3. \A b \in Buffers : mask[b] = {}
    BY <1>1
  <2> QED  BY <2>1, <2>2, <2>3 DEF ItemsAre
<1>10. chain \in [Owners -> Seq(ItemRec)]
  BY <1>1
<1>11. mask \in [Buffers -> SUBSET Int]
  BY <1>1
<1> HIDE DEF bare, none, empty
<1> QED  BY <1>1, <1>2, <1>6, <1>7, <1>8, <1>9, <1>10, <1>11 DEF PoolInv

\* A step that takes no unit, gives none back and makes no chunk.
LEMMA PoolAsBefore ==
  ASSUME PoolInv, UNCHANGED <<mask, next, prev, heads, counts, chunks>>,
         chain' \in [Owners -> Seq(ItemRec)], ItemsAre(chain', mask, chunks * BufChunk),
         freeing' \subseteq {o \in Owners : chain'[o] # <<>>},
         refused' = 0 \/ (refused' \in Nat /\ chunks = MaxChunks /\ \A b \in Buffers : Longest(mask[b]) < refused')
  PROVE  PoolInv'
<1>1. Home' = Home /\ TheLists' = TheLists
  BY DEF Home, TheLists
<1>2. /\ chunks \in 1 .. MaxChunks /\ mask \in [Buffers -> SUBSET Int] /\ Linked(TheLists, Home, {})
  BY DEF PoolInv
<1> QED  BY <1>1, <1>2 DEF PoolInv

\* malloc_char and malloc_void fill an item of the chain as far as its size.
LEMMA MallocThereKeeps ==
  ASSUME PoolInv, NEW o \in Owners, NEW len \in Lengths, NEW void \in BOOLEAN, MallocThere(o, len, void)
  PROVE  PoolInv'
<1> DEFINE room == WithRoom(o, Asked(len, void))
<1>1. chain \in [Owners -> Seq(ItemRec)] /\ ItemsAre(chain, mask, chunks * BufChunk)
  BY DEF PoolInv
<1>2. room \in SUBSET Nat /\ room # {} /\ DOMAIN chain[o] = 1 .. Len(chain[o])
  BY <1>1 DEF MallocThere, WithRoom
<1>3. PICK i \in room : /\ \A j \in room : i <= j
                        /\ chain' = [chain EXCEPT ![o][i].tek = Aligned(@, void) + len]
  <2>1. \E i \in room : \A j \in room : i <= j
    BY <1>2, Earliest
  <2>2. PICK i : i = CHOOSE q \in room : \A j \in room : q <= j
    OBVIOUS
  <2>3. i \in room /\ \A j \in room : i <= j
    BY <2>1, <2>2
  <2>4. chain' = [chain EXCEPT ![o][i].tek = Aligned(@, void) + len]
    BY <2>2 DEF MallocThere
  <2> QED  BY <2>3, <2>4
<1>4. i \in 1 .. Len(chain[o]) /\ Asked(len, void) < chain[o][i].size - chain[o][i].tek
  BY <1>2 DEF WithRoom
<1>5. chain[o][i] \in ItemRec /\ ItemOK(chain[o][i], chunks * BufChunk)
  BY <1>1, <1>4 DEF ItemsAre, Held
<1>6. PICK t : t = Aligned(chain[o][i].tek, void) + len
  OBVIOUS
<1>7. t \in 0 .. chain[o][i].size
  <2>1. chain[o][i].tek \in Nat /\ chain[o][i].size \in Int
    BY <1>5 DEF ItemOK, ItemRec
  <2>2. t \in Nat /\ Asked(len, void) \in Nat /\ t <= chain[o][i].tek + Asked(len, void)
    BY <1>6, <2>1, AlignedIs
  <2> QED  BY <1>4, <2>1, <2>2
<1>8. Filled(chain, o, i, t, chain')
  BY <1>1, <1>3, <1>4, <1>6 DEF Filled
<1>9. chunks * BufChunk \in Nat
  BY BufAssumption DEF PoolInv
<1>10. /\ chain' \in [Owners -> Seq(ItemRec)] /\ ItemsAre(chain', mask, chunks * BufChunk)
       /\ \A p \in Owners : Len(chain'[p]) = Len(chain[p])
  BY <1>1, <1>4, <1>7, <1>8, <1>9, ItemFilled
<1>11. freeing' \subseteq {p \in Owners : chain'[p] # <<>>}
  <2>1. freeing \subseteq {p \in Owners : chain[p] # <<>>} /\ freeing' = freeing
    BY DEF PoolInv, MallocThere
  <2>2. \A p \in Owners : chain[p] # <<>> => chain'[p] # <<>>
    BY <1>1, <1>10
  <2> QED  BY <2>1, <2>2
<1> QED  BY <1>10, <1>11, PoolAsBefore DEF MallocThere

\* A call fails when no list has a buffer with the room, and all chunks are made.
LEMMA MallocRefusedKeeps ==
  ASSUME PoolInv, NEW o \in Owners, NEW len \in Lengths, NEW void \in BOOLEAN, MallocRefused(o, len, void)
  PROVE  PoolInv'
<1>1. PICK n : n = UnitsFor(Asked(len, void))
  OBVIOUS
<1>2. n \in Nat \ {0}
  <2>1. Asked(len, void) \in Nat
    BY AlignedIs
  <2> QED  BY <1>1, <2>1, UnitsAre
<1>3. /\ n <= COUNT_ITEM /\ refused' = n /\ (heads[COUNT_ITEM] # 0 \/ chunks >= MaxChunks)
      /\ \A k \in n .. COUNT_ITEM : heads[k] = 0
      /\ UNCHANGED <<mask, next, prev, heads, counts, chunks, chain, freeing>>
  BY <1>1 DEF MallocRefused, ListsWith, TheLists
<1>4. chunks = MaxChunks
  <2>1. COUNT_ITEM \in n .. COUNT_ITEM /\ MaxChunks \in Nat
    BY <1>2, <1>3, BufAssumption
  <2> QED  BY <1>3, <2>1 DEF PoolInv
<1>5. ASSUME NEW b \in Buffers PROVE Longest(mask[b]) < n
  <2>1. PICK k : k = Longest(mask[b])
    OBVIOUS
  <2>2. k \in 0 .. COUNT_ITEM
    BY <2>1, LongestIs
  <2>3. Home[b] = k
    BY <1>4, <2>1, BufAssumption DEF Home, Buffers
  <2>4. SUFFICES ASSUME n <= k PROVE FALSE
    BY <1>2, <2>1, <2>2
  <2>5. k \in Lists /\ k \in n .. COUNT_ITEM
    BY <1>2, <2>2, <2>4, BufAssumption DEF Lists
  <2>6. PICK f : ListIs(next, prev, heads[k], counts[k], Home, k, f)
    BY <2>5 DEF PoolInv, Linked, TheLists
  <2>7. heads[k] # 0
    BY <2>3, <2>6, NeighboursOf
  <2> QED  BY <1>3, <2>5, <2>7
<1>6. /\ chain' \in [Owners -> Seq(ItemRec)] /\ ItemsAre(chain', mask, chunks * BufChunk)
      /\ freeing' \subseteq {p \in Owners : chain'[p] # <<>>}
  BY <1>3 DEF PoolInv
<1> QED  BY <1>2, <1>3, <1>4, <1>5, <1>6, PoolAsBefore

\* free_buffers_free starts with a chain that has an item.
LEMMA FreeChainKeeps ==
  ASSUME PoolInv, NEW o \in Owners, FreeChain(o)
  PROVE  PoolInv'
<1>1. /\ chain' \in [Owners -> Seq(ItemRec)] /\ ItemsAre(chain', mask, chunks * BufChunk)
      /\ freeing' \subseteq {p \in Owners : chain'[p] # <<>>}
  BY DEF PoolInv, FreeChain
<1> QED  BY <1>1, PoolAsBefore DEF FreeChain

LEMMA PoolStutters == PoolInv /\ UNCHANGED bufVars => PoolInv'
<1> SUFFICES ASSUME PoolInv, UNCHANGED bufVars PROVE PoolInv'
  OBVIOUS
<1>1. /\ chain' \in [Owners -> Seq(ItemRec)] /\ ItemsAre(chain', mask, chunks * BufChunk)
      /\ freeing' \subseteq {p \in Owners : chain'[p] # <<>>}
      /\ UNCHANGED <<mask, next, prev, heads, counts, chunks>>
      /\ refused' = 0 \/ (refused' \in Nat /\ chunks = MaxChunks /\ \A b \in Buffers : Longest(mask[b]) < refused')
  BY DEF PoolInv, bufVars
<1> QED  BY <1>1, PoolAsBefore

\* What a call that takes a new item does, from a chunk that it makes if it must.
LEMMA MallocNewDoes ==
  ASSUME PoolInv, NEW o \in Owners, NEW len \in Lengths, NEW void \in BOOLEAN, MallocNew(o, len, void)
  PROVE  \E n, ls, k, b, it, ms :
           /\ n = UnitsFor(Asked(len, void)) /\ n \in Lists
           /\ \/ ls = TheLists /\ chunks' = chunks
              \/ /\ ls = WithChunk(TheLists, chunks + 1) /\ heads[COUNT_ITEM] = 0
                 /\ chunks < MaxChunks /\ chunks' = chunks + 1
           /\ k \in n .. COUNT_ITEM /\ ls.heads[k] # 0 /\ b = ls.heads[k]
           /\ it = [buf |-> b, pos |-> FindBits(mask[b], n), tek |-> Aligned(0, void) + len,
                    size |-> n * MIN_SIZE_ITEM - Header]
           /\ mask' = [mask EXCEPT ![b] = @ \cup it.pos .. it.pos + n - 1] /\ ms = mask'[b]
           /\ NewLists(Pushed(Popped(ls, k), b, ms))
           /\ Appended(chain, o, it, chain')
           /\ refused' = 0 /\ freeing' = freeing
<1> DEFINE asked == Asked(len, void)
           n == UnitsFor(asked)
           grow == ListsWith(TheLists, n) = {} /\ heads[COUNT_ITEM] = 0 /\ chunks < MaxChunks
           ls == IF grow THEN WithChunk(TheLists, chunks + 1) ELSE TheLists
           with == ListsWith(ls, n)
           k == CHOOSE k \in with : \A j \in with : k <= j
           b == ls.heads[k]
           it == [buf |-> b, pos |-> FindBits(mask[b], n), tek |-> Aligned(0, void) + len,
                  size |-> n * MIN_SIZE_ITEM - Header]
<1>1. /\ n <= COUNT_ITEM /\ with # {}
      /\ mask' = [mask EXCEPT ![b] = @ \cup FindBits(mask[b], n) .. FindBits(mask[b], n) + n - 1]
      /\ NewLists(Pushed(Popped(ls, k), b, mask'[b]))
      /\ chunks' = IF grow THEN chunks + 1 ELSE chunks
      /\ chain' = [chain EXCEPT ![o] = Append(@, it)]
      /\ refused' = 0 /\ freeing' = freeing
  BY Zenon DEF MallocNew
<1>2. n \in Lists /\ n \in Nat \ {0}
  <2>1. asked \in Nat
    BY AlignedIs
  <2>2. n \in Nat \ {0}
    BY <2>1, UnitsAre
  <2>3. n <= COUNT_ITEM
    BY <1>1, Zenon
  <2> HIDE DEF n
  <2> QED  BY <2>2, <2>3, BufAssumption DEF Lists
<1>3. k \in with
  <2>1. with \in SUBSET Nat
    BY <1>2, BufAssumption DEF ListsWith
  <2>2. \E q \in with : \A j \in with : q <= j
    BY <1>1, <2>1, Earliest, Zenon
  <2> HIDE DEF with
  <2> QED  BY <2>2
<1>4. k \in n .. COUNT_ITEM /\ ls.heads[k] # 0
  <2> HIDE DEF k, ls, n
  <2> QED  BY <1>3 DEF ListsWith
<1>5. it.pos = FindBits(mask[b], n)
  OBVIOUS
<1>6. \/ ls = TheLists /\ chunks' = chunks
      \/ /\ ls = WithChunk(TheLists, chunks + 1) /\ heads[COUNT_ITEM] = 0
         /\ chunks < MaxChunks /\ chunks' = chunks + 1
  BY <1>1, Zenon
<1>7. PICK n1, ls1, k1, b1, it1, ms1 : /\ n1 = n /\ ls1 = ls /\ k1 = k /\ b1 = b /\ it1 = it
                                       /\ ms1 = mask'[b]
  OBVIOUS
<1>8. n1 = UnitsFor(Asked(len, void)) /\ b1 = ls1.heads[k1]
  BY <1>7
<1>9. it1 = [buf |-> b1, pos |-> FindBits(mask[b1], n1), tek |-> Aligned(0, void) + len,
             size |-> n1 * MIN_SIZE_ITEM - Header]
  BY <1>7
<1> HIDE DEF it, b, k, with, ls, grow, n, asked
<1>10. n1 \in Lists /\ k1 \in n1 .. COUNT_ITEM /\ ls1.heads[k1] # 0
  BY <1>2, <1>4, <1>7
<1>11. /\ \/ ls1 = TheLists /\ chunks' = chunks
          \/ /\ ls1 = WithChunk(TheLists, chunks + 1) /\ heads[COUNT_ITEM] = 0
             /\ chunks < MaxChunks /\ chunks' = chunks + 1
  BY <1>6, <1>7
<1>12. mask' = [mask EXCEPT ![b1] = @ \cup it1.pos .. it1.pos + n1 - 1] /\ ms1 = mask'[b1]
  BY <1>1, <1>5, <1>7
<1>13. NewLists(Pushed(Popped(ls1, k1), b1, ms1)) /\ Appended(chain, o, it1, chain')
  BY <1>1, <1>7 DEF Appended
<1> QED  BY <1>1, <1>8, <1>9, <1>10, <1>11, <1>12, <1>13, Zenon

\* The lists it takes the buffer from, and the chunk's buffers are on them.
LEMMA MadeIfNeeded ==
  ASSUME PoolInv, NEW ls, NEW c \in Nat,
         \/ ls = TheLists /\ c = chunks
         \/ ls = WithChunk(TheLists, chunks + 1) /\ heads[COUNT_ITEM] = 0 /\ chunks < MaxChunks /\ c = chunks + 1
  PROVE  /\ c \in 1 .. MaxChunks /\ chunks * BufChunk <= c * BufChunk
         /\ Linked(ls, [x \in Buffers |-> IF x <= c * BufChunk THEN Longest(mask[x]) ELSE 0], {})
<1> DEFINE g == [x \in Buffers |-> IF x <= c * BufChunk THEN Longest(mask[x]) ELSE 0]
<1>1. chunks \in 1 .. MaxChunks /\ chunks \in Nat /\ Linked(TheLists, Home, {})
  BY BufAssumption DEF PoolInv
<1>2. CASE ls = TheLists /\ c = chunks
  <2>1. g = Home
    BY <1>2 DEF Home
  <2>2. chunks * BufChunk \in Nat
    BY <1>1, BufAssumption
  <2> QED  BY <1>1, <1>2, <2>1, <2>2
<1>3. CASE ls = WithChunk(TheLists, chunks + 1) /\ heads[COUNT_ITEM] = 0 /\ chunks < MaxChunks /\ c = chunks + 1
  <2> DEFINE h == [x \in Buffers |-> IF InChunk(x, c) THEN COUNT_ITEM ELSE Home[x]]
  <2>1. c \in 1 .. MaxChunks
    BY <1>1, <1>3, BufAssumption
  <2>2. /\ chunks * BufChunk \in Nat /\ c * BufChunk \in Nat
        /\ FirstOf(c) = chunks * BufChunk + 1 /\ FirstOf(c + 1) = c * BufChunk + 1
        /\ FirstOf(c + 1) = FirstOf(c) + BufChunk /\ BufChunk \in Nat
    <3>1. c - 1 = chunks
      BY <1>1, <1>3
    <3>2. /\ FirstOf(c + 1) = FirstOf(c) + BufChunk
          /\ FirstOf(c) = (c - 1) * BufChunk + 1 /\ FirstOf(c + 1) = c * BufChunk + 1
          /\ (c - 1) * BufChunk \in Nat /\ c * BufChunk \in Nat
      BY <2>1, ChunkIs
    <3> QED  BY <3>1, <3>2, BufAssumption
  <2>3. \A x \in Buffers : InChunk(x, c) <=> x <= c * BufChunk /\ ~ (x <= chunks * BufChunk)
    <3>1. \A x \in Buffers : x \in Nat
      BY BuffersAre
    <3> QED  BY <2>2, <3>1 DEF InChunk
  <2>4. \A x \in Buffers : ~ (x <= chunks * BufChunk) => mask[x] = {}
    <3> SUFFICES ASSUME NEW x \in Buffers, NEW u \in mask[x] PROVE x <= chunks * BufChunk
      OBVIOUS
    <3>1. PICK o, i : Has(chain, o, i, x, u)
      BY DEF PoolInv, ItemsAre
    <3>2. Held(chain, o, i) /\ chain[o][i].buf = x
      BY <3>1 DEF Has, Takes
    <3>3. ItemOK(chain[o][i], chunks * BufChunk)
      BY <3>2 DEF PoolInv, ItemsAre
    <3> QED  BY <2>2, <3>2, <3>3 DEF ItemOK
  <2>5. Linked(ls, h, {})
    <3>1. \A x \in Buffers : InChunk(x, c) => Home[x] = 0
      BY <2>3 DEF Home
    <3>2. TheLists.heads[COUNT_ITEM] = 0
      BY <1>3 DEF TheLists
    <3>3. Home \in [Buffers -> Lists \cup {0}]
      BY HomeIs
    <3> QED  BY <1>1, <1>3, <2>1, <3>1, <3>2, <3>3, ChunkAdded
  <2>6. h = g
    <3>1. \A x \in Buffers : x <= chunks * BufChunk => x <= c * BufChunk
      <4>1. \A x \in Buffers : x \in Nat
        BY BuffersAre
      <4> QED  BY <2>2, <4>1
    <3>2. \A x \in Buffers : h[x] = g[x]
      BY <2>3, <2>4, <3>1, LongestFree DEF Home
    <3> QED  BY <3>2
  <2>7. chunks * BufChunk <= c * BufChunk
    BY <2>2
  <2> HIDE DEF g, h
  <2> QED  BY <2>1, <2>5, <2>6, <2>7 DEF g
<1> QED  BY <1>2, <1>3

\* malloc_char and malloc_void take units that are free from the first list that has
\* a buffer with enough of them.
LEMMA MallocNewKeeps ==
  ASSUME PoolInv, NEW o \in Owners, NEW len \in Lengths, NEW void \in BOOLEAN, MallocNew(o, len, void)
  PROVE  PoolInv'
<1>1. PICK n, ls, k, b, it, ms :
           /\ n = UnitsFor(Asked(len, void)) /\ n \in Lists
           /\ \/ ls = TheLists /\ chunks' = chunks
              \/ /\ ls = WithChunk(TheLists, chunks + 1) /\ heads[COUNT_ITEM] = 0
                 /\ chunks < MaxChunks /\ chunks' = chunks + 1
           /\ k \in n .. COUNT_ITEM /\ ls.heads[k] # 0 /\ b = ls.heads[k]
           /\ it = [buf |-> b, pos |-> FindBits(mask[b], n), tek |-> Aligned(0, void) + len,
                    size |-> n * MIN_SIZE_ITEM - Header]
           /\ mask' = [mask EXCEPT ![b] = @ \cup it.pos .. it.pos + n - 1] /\ ms = mask'[b]
           /\ NewLists(Pushed(Popped(ls, k), b, ms))
           /\ Appended(chain, o, it, chain')
           /\ refused' = 0 /\ freeing' = freeing
  BY MallocNewDoes
<1>2. /\ chunks \in 1 .. MaxChunks /\ mask \in [Buffers -> SUBSET Int]
      /\ chain \in [Owners -> Seq(ItemRec)] /\ ItemsAre(chain, mask, chunks * BufChunk)
      /\ freeing \subseteq {p \in Owners : chain[p] # <<>>}
  BY DEF PoolInv
<1>3. PICK c \in Nat : c = chunks'
  BY <1>1, <1>2, BufAssumption
<1>4. PICK h : h = [x \in Buffers |-> IF x <= c * BufChunk THEN Longest(mask[x]) ELSE 0]
  OBVIOUS
<1>5. c \in 1 .. MaxChunks /\ chunks * BufChunk <= c * BufChunk /\ Linked(ls, h, {})
  BY <1>1, <1>3, <1>4, MadeIfNeeded
<1>6. k \in Lists /\ n \in Nat \ {0} /\ n <= k /\ COUNT_ITEM \in Nat
  BY <1>1, BufAssumption DEF Lists
<1>7. h \in [Buffers -> Lists \cup {0}]
  <2>1. \A x \in Buffers : Longest(mask[x]) \in Lists \cup {0}
    BY LongestIs, BufAssumption DEF Lists
  <2> QED  BY <1>4, <2>1
<1>8. b \in Buffers /\ h[b] = k /\ Linked(Pushed(Popped(ls, k), b, ms), [h EXCEPT ![b] = Longest(ms)], {})
  <2>1. ls.heads[k] # 0 /\ b = ls.heads[k]
    BY <1>1
  <2>2. PICK q : Rehomed(h, b, ms, q)
    BY DEF Rehomed
  <2>3. b \in Buffers /\ h[b] = k /\ Linked(Pushed(Popped(ls, k), b, ms), q, {})
    BY <1>5, <1>6, <1>7, <2>1, <2>2, Moved
  <2> QED  BY <2>2, <2>3 DEF Rehomed
<1>9. b <= c * BufChunk /\ Longest(mask[b]) = k
  <2>1. k # 0
    BY <1>6
  <2> QED  BY <1>4, <1>8, <2>1
<1>10. FindBits(mask[b], n) \in 0 .. COUNT_ITEM - n
       /\ \A u \in FindBits(mask[b], n) .. FindBits(mask[b], n) + n - 1 : u \notin mask[b]
  BY <1>1, <1>6, <1>9, FindBitsIs
<1>11. /\ it.buf = b /\ it.pos = FindBits(mask[b], n) /\ it.tek = Aligned(0, void) + len
       /\ it.size = n * MIN_SIZE_ITEM - Header
       /\ it = [buf |-> it.buf, pos |-> it.pos, tek |-> it.tek, size |-> it.size]
  BY <1>1
<1>12. UnitsOf(it) = it.pos .. it.pos + n - 1
  BY <1>1, <1>10, <1>11, UnitsOfIs
<1>13. it.tek \in Nat /\ it.size \in Int /\ it.tek \in 0 .. it.size
  <2>1. 0 \in Nat /\ MIN_SIZE_ITEM \in Nat /\ Header \in Nat
    BY BufAssumption
  <2>2. /\ Aligned(0, void) + len \in Nat /\ Asked(len, void) \in Nat
        /\ Aligned(0, void) + len <= 0 + Asked(len, void)
    BY <2>1, AlignedIs
  <2>3. Asked(len, void) <= n * MIN_SIZE_ITEM - Header
    BY <1>1, <2>2, UnitsAre
  <2>4. n * MIN_SIZE_ITEM \in Nat
    BY <1>6, <2>1
  <2> QED  BY <1>11, <2>1, <2>2, <2>3, <2>4
<1>14. c * BufChunk \in Nat /\ chunks * BufChunk \in Nat
  BY <1>2, BufAssumption
<1>15. it \in ItemRec /\ ItemOK(it, c * BufChunk)
  <2>1. b \in Nat /\ b # 0
    BY <1>8, BuffersAre
  <2>2. it.buf \in 1 .. c * BufChunk
    BY <1>9, <1>11, <1>14, <2>1
  <2>3. it.pos \in Int
    BY <1>10, <1>11
  <2>4. it \in ItemRec
    BY <1>11, <1>13, <2>1, <2>3 DEF ItemRec
  <2>5. it.pos \in 0 .. COUNT_ITEM - n
    BY <1>10, <1>11
  <2> QED  BY <1>1, <1>11, <1>13, <2>2, <2>4, <2>5 DEF ItemOK
<1>16. PICK mm : mm = mask'
  OBVIOUS
<1>17. \A x \in Buffers : \A u : u \in mm[x] <=> u \in mask[x] \/ Takes(it, x, u)
  <2>1. \A x \in Buffers : mm[x] = IF x = b THEN mask[b] \cup it.pos .. it.pos + n - 1 ELSE mask[x]
    BY <1>1, <1>2, <1>8, <1>16
  <2>2. \A x, u : Takes(it, x, u) <=> x = b /\ u \in it.pos .. it.pos + n - 1
    BY <1>11, <1>12 DEF Takes
  <2> QED  BY <2>1, <2>2
<1>18. \A u \in UnitsOf(it) : u \notin mask[it.buf]
  BY <1>10, <1>11, <1>12
<1>19. chain' \in [Owners -> Seq(ItemRec)] /\ ItemsAre(chain', mm, c * BufChunk)
  BY <1>1, <1>2, <1>5, <1>8, <1>11, <1>14, <1>15, <1>17, <1>18, ItemAdded
<1>20. mask' \in [Buffers -> SUBSET Int]
  <2>1. it.pos .. it.pos + n - 1 \subseteq Int
    OBVIOUS
  <2> QED  BY <1>1, <1>2, <1>8, <2>1
<1>21. Linked(TheLists', [h EXCEPT ![b] = Longest(ms)], {})
  <2>1. TheLists' = Pushed(Popped(ls, k), b, ms)
    BY <1>1, <1>8, ListsNow
  <2> QED  BY <1>8, <2>1
<1>22. Home' = [h EXCEPT ![b] = Longest(ms)]
  <2>1. Home' = [x \in Buffers |-> IF x <= c * BufChunk THEN Longest(mm[x]) ELSE 0]
    BY <1>3, <1>16 DEF Home
  <2>2. \A x \in Buffers : x # b => mm[x] = mask[x]
    BY <1>1, <1>2, <1>16
  <2>3. mm[b] = ms
    BY <1>1, <1>16
  <2> QED  BY <1>4, <1>8, <1>9, <2>1, <2>2, <2>3
<1>23. freeing' \subseteq {p \in Owners : chain'[p] # <<>>}
  <2>1. chain' = [chain EXCEPT ![o] = Append(@, it)]
    BY <1>1 DEF Appended
  <2>2. Append(chain[o], it) # <<>>
    BY <1>2, <1>15
  <2>3. \A p \in Owners : chain[p] # <<>> => chain'[p] # <<>>
    BY <1>2, <2>1, <2>2
  <2>4. freeing' = freeing
    BY <1>1
  <2> QED  BY <1>2, <2>3, <2>4
<1>24. chunks' \in 1 .. MaxChunks /\ refused' = 0 /\ mm = mask' /\ c = chunks'
  BY <1>1, <1>3, <1>5, <1>16
<1> QED  BY <1>19, <1>20, <1>21, <1>22, <1>23, <1>24 DEF PoolInv

\* free_buffers_free gives back the units of the last item of the chain.
LEMMA FreeItemKeeps ==
  ASSUME PoolInv, NEW o \in Owners, FreeItem(o)
  PROVE  PoolInv'
<1>1. /\ chunks \in 1 .. MaxChunks /\ mask \in [Buffers -> SUBSET Int]
      /\ chain \in [Owners -> Seq(ItemRec)] /\ ItemsAre(chain, mask, chunks * BufChunk)
      /\ freeing \subseteq {p \in Owners : chain[p] # <<>>}
  BY DEF PoolInv
<1>2. o \in freeing /\ chain[o] # <<>>
  BY <1>1 DEF FreeItem
<1>3. PICK it : it = chain[o][Len(chain[o])]
  OBVIOUS
<1>4. Held(chain, o, Len(chain[o])) /\ it \in ItemRec /\ ItemOK(it, chunks * BufChunk)
  <2>1. Len(chain[o]) \in 1 .. Len(chain[o])
    BY <1>1, <1>2
  <2>2. Held(chain, o, Len(chain[o]))
    BY <2>1 DEF Held
  <2>3. it \in ItemRec
    BY <1>1, <1>3, <2>1
  <2> QED  BY <1>1, <1>3, <2>2, <2>3 DEF ItemsAre
<1>5. PICK n \in Lists : it.size = n * MIN_SIZE_ITEM - Header /\ it.pos \in 0 .. COUNT_ITEM - n
  BY <1>4 DEF ItemOK
<1>6. UnitsOf(it) = it.pos .. it.pos + n - 1 /\ UnitsBack(it) = n
  BY <1>5, UnitsOfIs
<1>7. PICK b : b = it.buf
  OBVIOUS
<1>8. b \in Buffers /\ b <= chunks * BufChunk
  <2>1. b \in 1 .. chunks * BufChunk /\ chunks \in Nat
    BY <1>1, <1>4, <1>7, BufAssumption DEF ItemOK
  <2>2. MaxChunks \in Nat /\ BufChunk \in Nat /\ chunks <= MaxChunks
    BY <1>1, BufAssumption
  <2>3. \A p, q, s \in Nat : p <= q => p * s <= q * s
    OBVIOUS
  <2>4. chunks * BufChunk <= MaxChunks * BufChunk
    BY <2>1, <2>2, <2>3
  <2>5. chunks * BufChunk \in Nat /\ MaxChunks * BufChunk \in Nat
    BY <2>1, <2>2
  <2> QED  BY <2>1, <2>4, <2>5 DEF Buffers
<1>9. PICK mm, ms : mm = mask' /\ ms = mask'[b]
  OBVIOUS
<1>10. /\ mask' = [mask EXCEPT ![b] = @ \ (it.pos .. it.pos + n - 1)]
       /\ NewLists(Pushed(Unlinked(TheLists, b), b, ms))
       /\ Shortened(chain, o, chain')
       /\ freeing' = (IF Len(chain[o]) = 1 THEN freeing \ {o} ELSE freeing)
       /\ refused' = 0 /\ chunks' = chunks
  BY <1>3, <1>6, <1>7, <1>9 DEF FreeItem, Shortened
<1>11. \A x \in Buffers : mm[x] = IF x = b THEN mask[b] \ (it.pos .. it.pos + n - 1) ELSE mask[x]
  BY <1>1, <1>8, <1>9, <1>10
<1>12. \A x \in Buffers : \A u : u \in mm[x] <=> u \in mask[x] /\ ~ Takes(it, x, u)
  <2>1. \A x, u : Takes(it, x, u) <=> x = b /\ u \in it.pos .. it.pos + n - 1
    BY <1>6, <1>7 DEF Takes
  <2> QED  BY <1>11, <2>1
<1>13. chunks * BufChunk \in Nat
  BY <1>1, BufAssumption
<1>14. chain' \in [Owners -> Seq(ItemRec)] /\ ItemsAre(chain', mm, chunks * BufChunk)
  BY <1>1, <1>2, <1>3, <1>10, <1>12, <1>13, ItemGivenBack
<1>15. Linked(TheLists', [Home EXCEPT ![b] = Longest(ms)], {})
  <2>1. PICK h : h = [Home EXCEPT ![b] = Longest(ms)]
    OBVIOUS
  <2>2. Linked(Pushed(Unlinked(TheLists, b), b, ms), h, {})
    BY <1>8, <2>1, MovedBack
  <2>3. TheLists' = Pushed(Unlinked(TheLists, b), b, ms)
    BY <1>10, <2>2, ListsNow
  <2> QED  BY <2>1, <2>2, <2>3
<1>16. Home' = [Home EXCEPT ![b] = Longest(ms)]
  <2>1. Home' = [x \in Buffers |-> IF x <= chunks * BufChunk THEN Longest(mm[x]) ELSE 0]
    BY <1>9, <1>10 DEF Home
  <2>2. mm[b] = ms
    BY <1>9
  <2> QED  BY <1>8, <1>11, <2>1, <2>2 DEF Home
<1>17. mask' \in [Buffers -> SUBSET Int]
  BY <1>1, <1>8, <1>10
<1>18. freeing' \subseteq {p \in Owners : chain'[p] # <<>>}
  <2>1. chain' = [chain EXCEPT ![o] = SubSeq(@, 1, Len(@) - 1)]
    BY <1>10 DEF Shortened
  <2>2. \A p \in Owners \ {o} : chain'[p] = chain[p]
    BY <1>1, <2>1
  <2>3. CASE Len(chain[o]) = 1
    BY <1>1, <1>10, <2>2, <2>3
  <2>4. CASE Len(chain[o]) # 1
    <3>1. Len(chain[o]) \in Nat \ {0}
      BY <1>1, <1>2
    <3>2. chain'[o] = SubSeq(chain[o], 1, Len(chain[o]) - 1)
      BY <1>1, <2>1
    <3>3. Len(chain[o]) - 1 \in Nat \ {0}
      BY <2>4, <3>1
    <3>4. Len(chain'[o]) = Len(chain[o]) - 1
      <4>1. \A i \in 1 .. Len(chain[o]) - 1 : chain[o][i] \in ItemRec
        BY <1>1, <3>1
      <4>2. PICK m \in Nat \ {0} : m = Len(chain[o]) - 1
        BY <3>3
      <4>3. PICK s : s = chain[o]
        OBVIOUS
      <4>4. Len(SubSeq(s, 1, m)) = IF 1 <= m THEN m - 1 + 1 ELSE 0
        BY <4>1, <4>2, <4>3, SubSeqProperties
      <4> QED  BY <3>2, <4>2, <4>3, <4>4
    <3>5. chain'[o] # <<>>
      BY <3>3, <3>4
    <3> QED  BY <1>1, <1>10, <2>2, <2>4, <3>5
  <2> QED  BY <2>3, <2>4
<1>19. mm = mask' /\ chunks' = chunks /\ refused' = 0
  BY <1>9, <1>10
<1> QED  BY <1>1, <1>14, <1>15, <1>16, <1>17, <1>18, <1>19 DEF PoolInv

-----------------------------------------------------------------------------
\* The invariant holds in every state.
LEMMA PoolAlways == BufSpec => []PoolInv
<1>1. PoolInv /\ [BufNext]_bufVars => PoolInv'
  <2> SUFFICES ASSUME PoolInv, [BufNext]_bufVars PROVE PoolInv'
    OBVIOUS
  <2>1. CASE UNCHANGED bufVars
    BY <2>1, PoolStutters
  <2>2. CASE BufNext
    <3>1. PICK o \in Owners :
            \/ \E len \in Lengths, void \in BOOLEAN :
                 MallocThere(o, len, void) \/ MallocNew(o, len, void) \/ MallocRefused(o, len, void)
            \/ FreeChain(o) \/ FreeItem(o)
      BY <2>2 DEF BufNext
    <3>2. ASSUME NEW len \in Lengths, NEW void \in BOOLEAN,
                 MallocThere(o, len, void) \/ MallocNew(o, len, void) \/ MallocRefused(o, len, void)
          PROVE  PoolInv'
      BY <3>2, MallocThereKeeps, MallocNewKeeps, MallocRefusedKeeps
    <3>3. CASE FreeChain(o)
      BY <3>3, FreeChainKeeps
    <3>4. CASE FreeItem(o)
      BY <3>4, FreeItemKeeps
    <3> QED  BY <3>1, <3>2, <3>3, <3>4
  <2> QED  BY <2>1, <2>2
<1> QED  BY <1>1, PoolStarts, PTL DEF BufSpec

LEMMA SoundIfInv == PoolInv => PoolSound
<1> SUFFICES ASSUME PoolInv PROVE PoolSound
  OBVIOUS
<1>1. ItemsAre(chain, mask, chunks * BufChunk) /\ chain \in [Owners -> Seq(ItemRec)]
  BY DEF PoolInv
<1>2. /\ \A o, i : Held(chain, o, i) <=> <<o, i>> \in Items
      /\ \A x \in Items : Held(chain, x[1], x[2]) /\ x = <<x[1], x[2]>> /\ ItemAt(x) = chain[x[1]][x[2]]
  BY <1>1 DEF Items, Held, ItemAt
<1>3. \A x \in Items : \A u : u \in UnitsOf(ItemAt(x)) <=> Has(chain, x[1], x[2], ItemAt(x).buf, u)
  BY <1>2 DEF Has, Takes
<1>4. ASSUME NEW x \in Items, NEW y \in Items, x # y, ItemAt(x).buf = ItemAt(y).buf
      PROVE  UnitsOf(ItemAt(x)) \cap UnitsOf(ItemAt(y)) = {}
  <2> SUFFICES ASSUME NEW u \in UnitsOf(ItemAt(x)), u \in UnitsOf(ItemAt(y)) PROVE FALSE
    OBVIOUS
  <2>1. Has(chain, x[1], x[2], ItemAt(x).buf, u) /\ Has(chain, y[1], y[2], ItemAt(x).buf, u)
    BY <1>3, <1>4
  <2>2. x[1] = y[1] /\ x[2] = y[2]
    BY <1>1, <2>1 DEF ItemsAre
  <2> QED  BY <1>2, <1>4, <2>2
<1>5. ASSUME NEW b \in Buffers
      PROVE  mask[b] = UNION {UnitsOf(ItemAt(x)) : x \in {y \in Items : ItemAt(y).buf = b}}
  <2>1. \A u : u \in mask[b] <=> \E o, i : Has(chain, o, i, b, u)
    BY <1>1 DEF ItemsAre
  <2>2. \A o, i, u : Has(chain, o, i, b, u)
                       <=> /\ <<o, i>> \in Items /\ ItemAt(<<o, i>>).buf = b
                           /\ u \in UnitsOf(ItemAt(<<o, i>>))
    BY <1>2 DEF Has, Takes, ItemAt
  <2>3. \A u : u \in mask[b] <=> \E x \in Items : ItemAt(x).buf = b /\ u \in UnitsOf(ItemAt(x))
    <3> SUFFICES ASSUME NEW u
                 PROVE  u \in mask[b] <=> \E x \in Items : ItemAt(x).buf = b /\ u \in UnitsOf(ItemAt(x))
      OBVIOUS
    <3>1. ASSUME u \in mask[b] PROVE \E x \in Items : ItemAt(x).buf = b /\ u \in UnitsOf(ItemAt(x))
      <4>1. PICK o, i : Has(chain, o, i, b, u)
        BY <2>1, <3>1
      <4> QED  BY <2>2, <4>1
    <3>2. ASSUME NEW x \in Items, ItemAt(x).buf = b, u \in UnitsOf(ItemAt(x)) PROVE u \in mask[b]
      <4>1. Has(chain, x[1], x[2], b, u)
        BY <1>3, <3>2
      <4> QED  BY <2>1, <4>1
    <3> QED  BY <3>1, <3>2
  <2> QED  BY <2>3
<1>6. \A x \in Items : ItemAt(x).tek <= ItemAt(x).size
  <2> TAKE x \in Items
  <2>1. ItemOK(ItemAt(x), chunks * BufChunk)
    BY <1>1, <1>2 DEF ItemsAre
  <2> QED  BY <2>1 DEF ItemOK
<1>7. ItemsApart
  BY <1>4, <1>5, <1>6 DEF ItemsApart
<1>8. ASSUME NEW k \in Lists
      PROVE  /\ OnList(k) = {b \in 1 .. chunks * BufChunk : Longest(mask[b]) = k}
             /\ counts[k] = Cardinality(OnList(k))
             /\ \A b \in OnList(k) : /\ next[b] # 0 => prev[next[b]] = b
                                     /\ prev[b] = 0 <=> heads[k] = b
  <2>1. PICK f : ListIs(next, prev, heads[k], counts[k], Home, k, f)
    BY DEF PoolInv, Linked, TheLists
  <2>2. OnList(k) = {b \in Buffers : Home[b] = k} /\ counts[k] = Cardinality(OnList(k))
    BY <2>1, OnListIs
  <2>3. \A b \in Buffers : Home[b] = k <=> b <= chunks * BufChunk /\ Longest(mask[b]) = k
    BY BufAssumption DEF Home, Lists
  <2>4. \A b : b \in 1 .. chunks * BufChunk <=> b \in Buffers /\ b <= chunks * BufChunk
    <3>1. MaxChunks \in Nat /\ BufChunk \in Nat /\ chunks \in Nat /\ chunks <= MaxChunks
      BY BufAssumption DEF PoolInv
    <3>2. \A p, q, s \in Nat : p <= q => p * s <= q * s
      OBVIOUS
    <3>3. chunks * BufChunk <= MaxChunks * BufChunk
      BY <3>1, <3>2
    <3>4. chunks * BufChunk \in Nat /\ MaxChunks * BufChunk \in Nat
      BY <3>1
    <3> QED  BY <3>3, <3>4 DEF Buffers
  <2>5. ASSUME NEW b \in OnList(k)
        PROVE  /\ next[b] # 0 => prev[next[b]] = b
               /\ prev[b] = 0 <=> heads[k] = b
    <3>1. b \in Buffers /\ Home[b] = k
      BY <2>2
    <3>2. prev[b] = 0 <=> heads[k] = b
      BY <2>1, <3>1, NeighboursOf
    <3>3. PICK i \in 1 .. counts[k] : f[i] = b
      BY <2>1, <3>1 DEF ListIs
    <3>4. ASSUME next[b] # 0 PROVE prev[next[b]] = b
      <4>1. counts[k] \in Nat /\ next[b] = f[i + 1] /\ i < counts[k]
        BY <2>1, <3>3, <3>4 DEF ListIs
      <4>2. i + 1 \in 1 .. counts[k] /\ i + 1 > 1 /\ i + 1 - 1 = i
        BY <4>1
      <4>3. prev[f[i + 1]] = f[i + 1 - 1]
        BY <2>1, <4>2 DEF ListIs
      <4> QED  BY <3>3, <4>1, <4>2, <4>3
    <3> QED  BY <3>2, <3>4
  <2> QED  BY <2>2, <2>3, <2>4, <2>5
<1>9. ListsAgree
  BY <1>8 DEF ListsAgree
<1> QED  BY <1>7, <1>9 DEF PoolSound

\* mvi_malloc.c: for any sizes and requests, items do not overlap, the masks say what
\* they take, a buffer is on the list of its longest free run and on no other, and the
\* counts are the lengths of the lists, also while a chain is freed item by item.
THEOREM PoolAlwaysSound == BufSpec => []PoolSound
BY PoolAlways, SoundIfInv, PTL

\* mvi_malloc.c: free_buffers_find fails only when all chunks are made, and no buffer
\* has as many free units in a row as it needs.
THEOREM RefusedOnlyWhenFull == BufSpec => []RefusedWhenFull
<1>1. PoolInv => RefusedWhenFull
  BY DEF PoolInv, RefusedWhenFull
<1> QED  BY <1>1, PoolAlways, PTL
=============================================================================
