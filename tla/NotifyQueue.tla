----------------------------- MODULE NotifyQueue -----------------------------
(***************************************************************************)
(* Notification of the application: CMessageQueue, CNotifyThread on top of *)
(* CSimplyThread, and the part of MP_Open, MP_Close and MP_SetCallback     *)
(* that starts, stops and configures them.                                 *)
(*                                                                         *)
(* The actors are the application, which holds g_xApiLocker during a call  *)
(* of the API; the producers, library threads that push events while the   *)
(* library is open; and the notify thread, which passes the events to the  *)
(* application's callback.  MP_Close ends the capture thread and waits for *)
(* it; the reglament thread of SIPLib is never stopped, and may be in the  *)
(* middle of a Push meanwhile: it is "detached".  Events are numbered in   *)
(* the order in which they enter the queue.                                *)
(*                                                                         *)
(* The application opens a closed library and closes an open one.          *)
(***************************************************************************)
EXTENDS Integers, Sequences, FiniteSets

CONSTANTS
  Producers,      \* threads that push events
  Detached,       \* those of them that MP_Close does not wait for
  ApiInCallback,  \* does the application's callback call the API?
  MaxEvents,      \* bound on the events pushed
  MaxOpens        \* bound on the calls of MP_Open

ASSUME NotifyAssumption ==
  /\ IsFiniteSet(Producers) /\ Detached \subseteq Producers
  /\ ApiInCallback \in BOOLEAN /\ MaxEvents \in Nat /\ MaxOpens \in Nat

VARIABLES
  queue,     \* m_xQueue
  ready,     \* CMessageQueue::m_hEvent, an auto-reset event
  stop,      \* CNotifyThread::m_hStopEvent, an auto-reset event
  running,   \* CSimplyThread::m_hStateEvent, a manual-reset event
  callback,  \* is m_pCallBack set?
  thread,    \* where the notify thread is; "none" before the first start
  hand,      \* the event it has taken from the queue, 0 if none
  api,       \* where the application is; "out" when it is not in the API
  open,      \* do the packet filter and the terminal manager exist?
  opens,     \* calls of MP_Open so far
  producer,  \* where each producer is
  sent,      \* events pushed so far
  done       \* the last event handed over, or dropped by MP_Close

apiVars      == <<api, open, opens>>
queueVars    == <<queue, ready, sent>>
threadVars   == <<thread, hand, done>>
vars == <<queueVars, stop, running, callback, threadVars, apiVars, producer>>

Gone == {"none", "ended"}

Init ==
  /\ queue = <<>> /\ ready = FALSE /\ stop = FALSE /\ running = FALSE
  /\ callback = FALSE
  /\ thread = "none" /\ hand = 0
  /\ api = "out" /\ open = FALSE /\ opens = 0
  /\ producer = [p \in Producers |-> "idle"]
  /\ sent = 0 /\ done = 0

-----------------------------------------------------------------------------
(* CMessageQueue::Push: the event enters under the lock of the queue, the   *)
(* queue event is set after the lock was left.                              *)

Pushing == {p \in Producers : producer[p] = "push"}

\* A thread of the open library has something to report, and calls Push.
\* The capture thread is started after MP_Open has waited for the notify
\* thread.
BeginPush(p) ==
  /\ producer[p] = "idle" /\ open
  /\ p \in Detached \/ api # "openWait"
  /\ sent + Cardinality(Pushing) < MaxEvents
  /\ producer' = [producer EXCEPT ![p] = "push"]
  /\ UNCHANGED <<queueVars, stop, running, callback, threadVars, apiVars>>

Enqueue(p) ==
  /\ producer[p] = "push"
  /\ sent' = sent + 1
  /\ queue' = Append(queue, sent')
  /\ producer' = [producer EXCEPT ![p] = "signal"]
  /\ UNCHANGED <<ready, stop, running, callback, threadVars, apiVars>>

Signal(p) ==
  /\ producer[p] = "signal"
  /\ ready' = TRUE
  /\ producer' = [producer EXCEPT ![p] = "idle"]
  /\ UNCHANGED <<queue, sent, stop, running, callback, threadVars, apiVars>>

-----------------------------------------------------------------------------
(* The notify thread: _RunThreadItem around CNotifyThread::Run.             *)

Move(from, to) == thread = from /\ thread' = to

Begin ==
  /\ Move("begin", "test")
  /\ running' = TRUE
  /\ UNCHANGED <<queueVars, stop, callback, hand, done, apiVars, producer>>

TestRunning ==
  /\ Move("test", IF running THEN "wait" ELSE "exit")
  /\ UNCHANGED <<queueVars, stop, running, callback, hand, done, apiVars, producer>>

\* WaitForMultipleObjects: the queue event comes first when both are set.
WakeForQueue ==
  /\ Move("wait", "pop")
  /\ ready /\ ready' = FALSE
  /\ UNCHANGED <<queue, sent, stop, running, callback, hand, done, apiVars, producer>>

WakeForStop ==
  /\ Move("wait", "exit")
  /\ ~ ready
  /\ stop /\ stop' = FALSE
  /\ UNCHANGED <<queueVars, running, callback, hand, done, apiVars, producer>>

\* Bug: the event is read but left in the queue.
PopPeek ==
  /\ \/ /\ queue # <<>> /\ Move("pop", "have")
        /\ hand' = Head(queue) /\ UNCHANGED queue
     \/ /\ queue = <<>> /\ Move("pop", "test")
        /\ UNCHANGED <<hand, queue>>
  /\ UNCHANGED <<ready, sent, stop, running, callback, done, apiVars, producer>>

\* Pop, under the lock of the queue, until the queue is empty.
Pop ==
  /\ \/ /\ queue # <<>> /\ Move("pop", "have")
        /\ hand' = Head(queue) /\ queue' = Tail(queue)
     \/ /\ queue = <<>> /\ Move("pop", "test")
        /\ UNCHANGED <<hand, queue>>
  /\ UNCHANGED <<ready, sent, stop, running, callback, done, apiVars, producer>>

\* Bug: the next event is looked for with the last one still in hand.
DisposeKeep == done' = hand /\ UNCHANGED hand

\* The event in hand is disposed of, and the next one is looked for.
Dispose == done' = hand /\ hand' = 0

TestCallback ==
  /\ \/ callback /\ Move("have", "call") /\ UNCHANGED <<hand, done>>
     \/ ~ callback /\ Move("have", "pop") /\ Dispose
  /\ UNCHANGED <<queueVars, stop, running, callback, apiVars, producer>>

\* Whether the pointer is read a second time for the call is up to the
\* compiler: the call goes to the function tested, or to what is set now.
Call ==
  /\ Move("call", "inside")
  /\ UNCHANGED <<queueVars, stop, running, callback, hand, done, apiVars, producer>>

\* Bug: one event is handed over for each time the queue event was set.
ReturnOnce ==
  /\ Move("inside", "test")
  /\ ApiInCallback => api = "out"
  /\ Dispose
  /\ UNCHANGED <<queueVars, stop, running, callback, apiVars, producer>>

\* A callback that calls the API needs g_xApiLocker, which the application
\* thread holds while it is in a call of its own.
Return ==
  /\ Move("inside", "pop")
  /\ ApiInCallback => api = "out"
  /\ Dispose
  /\ UNCHANGED <<queueVars, stop, running, callback, apiVars, producer>>

\* After Run: the state event is reset if it is still set.
Exit ==
  /\ Move("exit", IF running THEN "reset" ELSE "ended")
  /\ UNCHANGED <<queueVars, stop, running, callback, hand, done, apiVars, producer>>

Reset ==
  /\ Move("reset", "ended")
  /\ running' = FALSE
  /\ UNCHANGED <<queueVars, stop, callback, hand, done, apiVars, producer>>

-----------------------------------------------------------------------------
(* The application. *)

Enter(from, to) == api = from /\ api' = to

\* MP_Open: CSimplyThread::Start, unless the state event says it runs.
OpenStart ==
  /\ Enter("out", "openWait")
  /\ ~ open /\ opens < MaxOpens
  /\ open' = TRUE /\ opens' = opens + 1
  /\ thread' = IF running THEN thread ELSE "begin"
  /\ UNCHANGED <<queueVars, stop, running, callback, hand, done, producer>>

\* ... and WaitForStart, with no timeout.
OpenWait ==
  /\ Enter("openWait", "out")
  /\ running
  /\ UNCHANGED <<queueVars, stop, running, callback, threadVars, open, opens, producer>>

\* MP_Close first ends the producers: the capture thread is waited for, the
\* terminal manager is deleted.
CloseProducers ==
  /\ Enter("out", "closeSignal")
  /\ open /\ open' = FALSE
  /\ \A p \in Producers \ Detached : producer[p] = "idle"
  /\ UNCHANGED <<queueVars, stop, running, callback, threadVars, opens, producer>>

\* Bug: the notify thread is not woken up.
CloseSilently ==
  /\ Enter("closeSignal", "closeTest")
  /\ UNCHANGED <<queueVars, stop, running, callback, threadVars, open, opens, producer>>

\* CNotifyThread::Stop: the stop event is set ...
CloseSignal ==
  /\ Enter("closeSignal", "closeTest")
  /\ stop' = TRUE
  /\ UNCHANGED <<queueVars, running, callback, threadVars, open, opens, producer>>

\* ... and CSimplyThread::Stop resets the state event, if it is set.
CloseTest ==
  /\ Enter("closeTest", IF running THEN "closeReset" ELSE "closeWait")
  /\ UNCHANGED <<queueVars, stop, running, callback, threadVars, open, opens, producer>>

CloseReset ==
  /\ Enter("closeReset", "closeWait")
  /\ running' = FALSE
  /\ UNCHANGED <<queueVars, stop, callback, threadVars, open, opens, producer>>

\* Bug: MP_Close does not wait for the notify thread.
CloseNoWait ==
  /\ Enter("closeWait", "closeClear")
  /\ UNCHANGED <<queueVars, stop, running, callback, threadVars, open, opens, producer>>

\* WaitForEnd, with no timeout.
CloseWait ==
  /\ Enter("closeWait", "closeClear")
  /\ thread \in Gone
  /\ UNCHANGED <<queueVars, stop, running, callback, threadVars, open, opens, producer>>

\* CMessageQueue::Clear.
CloseClear ==
  /\ Enter("closeClear", "out")
  /\ queue' = <<>> /\ done' = sent
  /\ UNCHANGED <<ready, sent, stop, running, callback, thread, hand, open, opens, producer>>

\* MP_SetCallback, with a function or with NULL.
SetCallback(f) ==
  /\ api = "out"
  /\ callback' = f
  /\ UNCHANGED <<queueVars, stop, running, threadVars, apiVars, producer>>

-----------------------------------------------------------------------------
Produce(p) == BeginPush(p) \/ Enqueue(p) \/ Signal(p)

Notify ==
  Begin \/ TestRunning \/ WakeForQueue \/ WakeForStop \/ Pop \/ TestCallback \/ Call
    \/ Return \/ Exit \/ Reset

InApi ==
  OpenWait \/ CloseSignal \/ CloseTest \/ CloseReset \/ CloseWait \/ CloseClear

Application == OpenStart \/ CloseProducers \/ (\E f \in BOOLEAN : SetCallback(f)) \/ InApi

Next == Notify \/ Application \/ \E p \in Producers : Produce(p)

Spec == Init /\ [][Next]_vars

\* Threads keep running; nothing makes the application call, or an event occur.
Fairness ==
  /\ WF_vars(Notify)
  /\ WF_vars(InApi)
  /\ \A p \in Producers : WF_vars(Enqueue(p) \/ Signal(p))

FairSpec == Spec /\ Fairness

-----------------------------------------------------------------------------
(* Properties. *)

ThreadPlaces == {"none", "begin", "test", "wait", "pop", "have", "call", "inside", "exit",
                 "reset", "ended"}
ApiPlaces == {"out", "openWait", "closeSignal", "closeTest", "closeReset", "closeWait",
              "closeClear"}

\* Types; the notify thread has an event in hand exactly while it looks at the
\* callback or is in it.
TypeOK ==
  /\ queue \in Seq(1 .. MaxEvents)
  /\ ready \in BOOLEAN /\ stop \in BOOLEAN /\ running \in BOOLEAN /\ callback \in BOOLEAN
  /\ thread \in ThreadPlaces /\ hand \in 0 .. MaxEvents
  /\ api \in ApiPlaces /\ open \in BOOLEAN /\ opens \in 0 .. MaxOpens
  /\ producer \in [Producers -> {"idle", "push", "signal"}]
  /\ sent \in 0 .. MaxEvents /\ done \in 0 .. MaxEvents
  /\ hand # 0 <=> thread \in {"have", "call", "inside"}

\* Every event is handed over once and in the order of its Push: what is still
\* to come, the one in hand first, is exactly what follows the last one done.
InOrder ==
  LET taken == IF hand = 0 THEN done ELSE hand
  IN  /\ hand # 0 => hand = done + 1
      /\ queue = [i \in 1 .. sent - taken |-> taken + i]

\* No lost wake-up: while the thread sleeps, an event in the queue has been
\* signalled, or its producer is about to signal.  Clear leaves the queue event
\* set, never the other way round.
NoLostWakeup ==
  thread = "wait" /\ queue # <<>>
    => ready \/ \E p \in Producers : producer[p] = "signal"

\* There is never a second notify thread: when MP_Open creates one, the thread
\* of the last opening has ended, although only the state event is tested.
OneThread == api = "out" /\ ~ open => thread \in Gone /\ ~ running

\* After MP_Close the application hears nothing of what went before: nothing is
\* in the hands of a thread, and the queue keeps for the next opening at most
\* the one event that a detached thread was about to push.
ClosedIsEmpty ==
  api = "out" /\ ~ open => hand = 0 /\ Len(queue) <= Cardinality(Detached)

\* Both: the closed library has no notify thread and next to no events.
ClosedIsQuiet == OneThread /\ ClosedIsEmpty

\* MP_Close returns, in the first opening and provided that the callback does
\* not call the API.
CloseReturns == ~ open /\ api # "out" ~> api = "out"

\* Every event of the first opening is handed over, or MP_Close has returned.
Delivered ==
  \A e \in 1 .. MaxEvents : sent >= e ~> done >= e \/ (api = "out" /\ ~ open)

(* What the comments say, and the code does not do. *)

\* NotifyThread.h:11: CNotifyThread shall "Fetch message from queue and call
\* registered callback": while the library is open and the application is not
\* in a call, there is a notify thread that has not left its loop.
NotifiedWhileOpen == api = "out" /\ open => thread \notin {"exit", "reset", "ended"}

\* RecorderMain.cpp:241: "MyProc may be NULL, which disables the further
\* sending of callbacks": the thread is not about to call back after
\* MP_SetCallback(NULL) has returned.
SilentWhenNull == thread = "call" => callback
=============================================================================
