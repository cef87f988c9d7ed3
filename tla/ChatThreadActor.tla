--------------------------- MODULE ChatThreadActor ---------------------------
(***************************************************************************)
(* One ChatThreadActor (actor.py): a bounded FIFO queue, the worker task   *)
(* that drains it, the dispatch task and the holding-message timer it      *)
(* races for each event, and the callers that drain and shut the actor     *)
(* down (Assistant._reap_actor and Assistant.shutdown).                    *)
(*                                                                         *)
(* asyncio is cooperative, so a step of the model is what one task runs    *)
(* between two suspension points.  wpc names the await at which the worker *)
(* is suspended.  Task.cancel() sets `cancel`: CancelledError is raised in *)
(* the worker at the await it is suspended on, the next time it runs.      *)
(*                                                                         *)
(* Abstracted: an event is the ordinal of its acceptance, a turn its role  *)
(* and event, a text its kind; time is left out (a timer may fire and a    *)
(* drain may time out whenever it is pending); cortex_call and the session *)
(* are external and answer, raise, or honour a cancellation.               *)
(***************************************************************************)
EXTENDS Naturals, Sequences

CONSTANTS QueueDepth,   \* AssistantConfig.per_thread_queue_depth
          MaxEvents,    \* bound on the events one actor ever accepts
          Stoppers      \* the callers that drain and then shut the actor down

ASSUME QueueDepthAssumption == QueueDepth \in Nat \ {0}
ASSUME MaxEventsAssumption  == MaxEvents \in Nat \ {0}

Events == 1 .. MaxEvents

VARIABLES
    accepted,   \* number of events put on the queue so far
    queue,      \* _queue
    idle,       \* _idle_since is not None
    stopping,   \* _stopping
    hasWorker,  \* _worker is not None
    wpc,        \* the await the worker task is suspended on
    cancel,     \* a cancellation of the worker is pending
    raising,    \* the exception the cleanup of the race will re-raise
    current,    \* the worker's local `event`, 0 outside of an event
    dispatch,   \* per event, its dispatch_task
    timer,      \* per event, its timer_task
    history,    \* _history
    sent,       \* what the session delivered, in order
    lost,       \* events whose last send, the fallback, raised
    spc         \* where each stopper is

inboxVars  == <<accepted, queue>>
flagVars   == <<stopping, hasWorker>>
workerVars == <<wpc, cancel, raising, current>>
taskVars   == <<dispatch, timer, history>>
ghostVars  == <<sent, lost>>
vars == <<inboxVars, idle, flagVars, workerVars, taskVars, ghostVars, spc>>

LiveDispatch == {"new", "call", "cancel"}
DispatchStates == LiveDispatch \cup {"none", "ok", "unavailable", "error", "cancelled"}
LiveTimer == {"armed", "cancel"}
TimerStates == LiveTimer \cup {"none", "done"}
DeadWorker == {"cancelled", "crashed"}
WorkerStates == DeadWorker \cup
    {"created", "get", "race", "timerWait", "filler", "await", "reply",
     "fallbackCU", "fallback", "cleanupD", "cleanupT"}

MessageKinds == {"reply", "fallback", "filler"}
Message == [event : Events, kind : MessageKinds]
Turn    == [role : {"user", "assistant"}, event : Events]

TypeOK ==
    /\ accepted \in 0 .. MaxEvents
    /\ queue \in Seq(Events)
    /\ Len(queue) <= QueueDepth
    /\ idle \in BOOLEAN /\ stopping \in BOOLEAN /\ hasWorker \in BOOLEAN
    /\ wpc \in WorkerStates
    /\ cancel \in BOOLEAN
    /\ raising \in {"none", "cancel", "error"}
    /\ current \in 0 .. MaxEvents
    /\ dispatch \in [Events -> DispatchStates]
    /\ timer \in [Events -> TimerStates]
    /\ history \in Seq(Turn)
    /\ sent \in Seq(Message)
    /\ lost \subseteq Events
    /\ spc \in [Stoppers -> {"none", "draining", "stopping", "done"}]

\* Spawned by its first event, which the pool enqueues in the same step: the
\* worker task exists and has not run yet.
Init ==
    /\ accepted = 1
    /\ queue = <<1>>
    /\ idle = FALSE
    /\ stopping = FALSE
    /\ hasWorker = TRUE
    /\ wpc = "created"
    /\ cancel = FALSE
    /\ raising = "none"
    /\ current = 0
    /\ dispatch = [e \in Events |-> "none"]
    /\ timer = [e \in Events |-> "none"]
    /\ history = <<>>
    /\ sent = <<>>
    /\ lost = {}
    /\ spc = [s \in Stoppers |-> "none"]

-----------------------------------------------------------------------------
(* Calls of the Assistant.                                                 *)

\* Mutant: the bound of the queue is forgotten.
ReceiveUnbounded ==
    /\ accepted < MaxEvents
    /\ idle' = FALSE
    /\ accepted' = accepted + 1
    /\ queue' = Append(queue, accepted + 1)
    /\ UNCHANGED <<flagVars, workerVars, taskVars, ghostVars, spc>>

\* A message reaches the actor: the pool clears the idle marker and enqueues
\* it; a full queue refuses it and nothing is stored.
Receive ==
    /\ accepted < MaxEvents
    /\ idle' = FALSE
    /\ \/ /\ Len(queue) < QueueDepth
          /\ accepted' = accepted + 1
          /\ queue' = Append(queue, accepted + 1)
       \/ /\ Len(queue) >= QueueDepth
          /\ UNCHANGED <<accepted, queue>>
    /\ UNCHANGED <<flagVars, workerVars, taskVars, ghostVars, spc>>

\* mark_idle: the sender left the meeting.
MarkIdle ==
    /\ ~ idle
    /\ idle' = TRUE
    /\ UNCHANGED <<inboxVars, flagVars, workerVars, taskVars, ghostVars, spc>>

\* cancel_idle: the sender rejoined.
CancelIdle ==
    /\ idle
    /\ idle' = FALSE
    /\ UNCHANGED <<inboxVars, flagVars, workerVars, taskVars, ghostVars, spc>>

-----------------------------------------------------------------------------
(* The worker task.                                                        *)

\* Mutant: the idle marker is not cleared when an event is taken.
TakeKeepsIdle ==
    /\ queue # <<>>
    /\ queue' = Tail(queue)
    /\ current' = Head(queue)
    /\ UNCHANGED idle
    /\ dispatch' = [dispatch EXCEPT ![Head(queue)] = "new"]
    /\ timer' = [timer EXCEPT ![Head(queue)] = "armed"]
    /\ wpc' = "race"

\* queue.get() returned an event: the two tasks of the race are created.
Take ==
    /\ queue # <<>>
    /\ queue' = Tail(queue)
    /\ current' = Head(queue)
    /\ idle' = FALSE
    /\ dispatch' = [dispatch EXCEPT ![Head(queue)] = "new"]
    /\ timer' = [timer EXCEPT ![Head(queue)] = "armed"]
    /\ wpc' = "race"

\* The top of the loop: get() suspends only when the queue is empty.
LoopTop ==
    \/ Take
    \/ /\ queue = <<>>
       /\ idle' = TRUE
       /\ current' = 0
       /\ wpc' = "get"
       /\ UNCHANGED <<queue, dispatch, timer>>

\* The worker task ends with CancelledError.
Die ==
    /\ wpc' = "cancelled"
    /\ current' = 0

Wake ==
    /\ wpc \in {"created", "get"} /\ ~ cancel
    /\ Take
    /\ UNCHANGED <<accepted, flagVars, cancel, raising, history, ghostVars, spc>>

\* Where the result or the exception of the dispatch task takes the worker.
AfterDispatch == [ok |-> "reply", unavailable |-> "fallbackCU", error |-> "fallback"]
Resolved == dispatch[current] \in DOMAIN AfterDispatch

\* asyncio.wait woke the worker and the dispatch is done: its result is used at
\* once if the timer is done too, else the timer is cancelled and awaited.
RaceWon ==
    /\ wpc = "race" /\ ~ cancel /\ Resolved
    /\ \/ /\ timer[current] = "done"
          /\ wpc' = AfterDispatch[dispatch[current]]
          /\ UNCHANGED timer
       \/ /\ timer[current] = "armed"
          /\ timer' = [timer EXCEPT ![current] = "cancel"]
          /\ wpc' = "timerWait"
    /\ UNCHANGED <<inboxVars, idle, flagVars, cancel, raising, current, dispatch,
                   history, ghostVars, spc>>

\* `with suppress(CancelledError): await timer_task`: a cancellation of the
\* worker that arrives here is suppressed with the timer's own.
TimerStopped ==
    /\ wpc = "timerWait" /\ timer[current] = "done"
    /\ cancel' = FALSE
    /\ wpc' = AfterDispatch[dispatch[current]]
    /\ UNCHANGED <<inboxVars, idle, flagVars, raising, current, taskVars, ghostVars,
                   spc>>

\* The holding-message threshold passed first.
RaceTimedOut ==
    /\ wpc = "race" /\ ~ cancel
    /\ dispatch[current] \in LiveDispatch /\ timer[current] = "done"
    /\ wpc' = "filler"
    /\ UNCHANGED <<inboxVars, idle, flagVars, cancel, raising, current, taskVars,
                   ghostVars, spc>>

Delivered(kind) == sent' = Append(sent, [event |-> current, kind |-> kind])

\* Mutant: the filler is sent inside the wait loop, which is entered again.
FillerSentRepeats ==
    /\ wpc = "filler" /\ ~ cancel
    /\ Delivered("filler")
    /\ wpc' = IF Resolved THEN AfterDispatch[dispatch[current]] ELSE "race"
    /\ UNCHANGED <<inboxVars, idle, flagVars, cancel, raising, current, taskVars, lost,
                   spc>>

FillerSent ==
    /\ wpc = "filler" /\ ~ cancel
    /\ Delivered("filler")
    /\ wpc' = IF Resolved THEN AfterDispatch[dispatch[current]] ELSE "await"
    /\ UNCHANGED <<inboxVars, idle, flagVars, cancel, raising, current, taskVars, lost,
                   spc>>

\* `return await dispatch_task`
Awaited ==
    /\ wpc = "await" /\ ~ cancel /\ Resolved
    /\ wpc' = AfterDispatch[dispatch[current]]
    /\ UNCHANGED <<inboxVars, idle, flagVars, cancel, raising, current, taskVars,
                   ghostVars, spc>>

\* The end of the cleanup: the exception that started it is re-raised.
Reraise(exc) ==
    \/ exc = "cancel" /\ Die
    \/ exc = "error" /\ wpc' = "fallback" /\ UNCHANGED current

UnwindTimer(exc) ==
    \/ /\ timer[current] \in LiveTimer
       /\ timer' = [timer EXCEPT ![current] = "cancel"]
       /\ raising' = exc
       /\ wpc' = "cleanupT"
       /\ UNCHANGED current
    \/ /\ timer[current] \notin LiveTimer
       /\ raising' = "none"
       /\ Reraise(exc)
       /\ UNCHANGED timer

\* Mutant: the exception leaves the race without cancelling the dispatch task.
UnwindLeaky(exc) == UnwindTimer(exc) /\ UNCHANGED dispatch

\* The `except BaseException` of the race: a dispatch that is not done is
\* cancelled and awaited, then the timer, then exc is re-raised.
Unwind(exc) ==
    \/ /\ dispatch[current] \in LiveDispatch
       /\ dispatch' = [dispatch EXCEPT ![current] = "cancel"]
       /\ raising' = exc
       /\ wpc' = "cleanupD"
       /\ UNCHANGED <<current, timer>>
    \/ /\ dispatch[current] \notin LiveDispatch
       /\ UnwindTimer(exc)
       /\ UNCHANGED dispatch

FillerFails ==
    /\ wpc = "filler" /\ ~ cancel
    /\ Unwind("error")
    /\ UNCHANGED <<inboxVars, idle, flagVars, cancel, history, ghostVars, spc>>

\* A cancellation of the worker that arrives during the cleanup is suppressed:
\* what is re-raised is the exception that started it.
CleanedDispatch ==
    /\ wpc = "cleanupD" /\ dispatch[current] \notin LiveDispatch
    /\ cancel' = FALSE
    /\ UnwindTimer(raising)
    /\ UNCHANGED <<inboxVars, idle, flagVars, dispatch, history, ghostVars, spc>>

CleanedTimer ==
    /\ wpc = "cleanupT" /\ timer[current] \notin LiveTimer
    /\ cancel' = FALSE
    /\ raising' = "none"
    /\ Reraise(raising)
    /\ UNCHANGED <<inboxVars, idle, flagVars, taskVars, ghostVars, spc>>

\* What each send of an answer delivers.
SendKind == [reply |-> "reply", fallbackCU |-> "fallback", fallback |-> "fallback"]

AnswerSent ==
    /\ wpc \in DOMAIN SendKind /\ ~ cancel
    /\ Delivered(SendKind[wpc])
    /\ LoopTop
    /\ UNCHANGED <<accepted, flagVars, cancel, raising, history, lost, spc>>

\* Mutant: a reply that cannot be sent is only logged.
ReplyFailsSilently ==
    /\ wpc = "reply" /\ ~ cancel
    /\ LoopTop
    /\ UNCHANGED <<accepted, flagVars, cancel, raising, history, ghostVars, spc>>

\* A reply that cannot be sent is replaced by the fallback.
ReplyFails ==
    /\ wpc = "reply" /\ ~ cancel
    /\ wpc' = "fallback"
    /\ UNCHANGED <<inboxVars, idle, flagVars, cancel, raising, current, taskVars,
                   ghostVars, spc>>

\* Mutant: the send of the last fallback is not protected either.
FallbackFailsEndsWorker ==
    /\ wpc = "fallback" /\ ~ cancel
    /\ lost' = lost \cup {current}
    /\ wpc' = "crashed"
    /\ current' = 0
    /\ UNCHANGED <<inboxVars, idle, flagVars, cancel, raising, taskVars, sent, spc>>

\* The fallback of `except Exception` is logged and dropped when it fails...
FallbackFails ==
    /\ wpc = "fallback" /\ ~ cancel
    /\ lost' = lost \cup {current}
    /\ LoopTop
    /\ UNCHANGED <<accepted, flagVars, cancel, raising, history, sent, spc>>

\* ... the one of `except CortexUnavailable` is not: it ends the worker task.
FallbackCrashes ==
    /\ wpc = "fallbackCU" /\ ~ cancel
    /\ lost' = lost \cup {current}
    /\ wpc' = "crashed"
    /\ current' = 0
    /\ UNCHANGED <<inboxVars, idle, flagVars, cancel, raising, taskVars, sent, spc>>

\* CancelledError is raised outside of an event, or at `await dispatch_task` (to
\* which Task.cancel() passed the cancellation on): nothing is left to clean up.
CancelledWaiting ==
    /\ cancel /\ cancel' = FALSE
    /\ \/ wpc \in {"created", "get"}
       \/ wpc = "await" /\ dispatch[current] \notin LiveDispatch
    /\ Die
    /\ UNCHANGED <<inboxVars, idle, flagVars, raising, taskVars, ghostVars, spc>>

\* Mutant: the handler of errors takes a cancelled send for a failed one.
CancelledSendingCaught ==
    /\ cancel /\ cancel' = FALSE
    /\ wpc \in DOMAIN SendKind
    /\ wpc' = "fallback"
    /\ UNCHANGED <<inboxVars, idle, flagVars, raising, current, taskVars, ghostVars,
                   spc>>

\* CancelledError is raised in the send of an answer, delivered or not.
CancelledSending ==
    /\ cancel /\ cancel' = FALSE
    /\ wpc \in DOMAIN SendKind
    /\ UNCHANGED sent \/ Delivered(SendKind[wpc])
    /\ Die
    /\ UNCHANGED <<inboxVars, idle, flagVars, raising, taskVars, lost, spc>>

\* CancelledError is raised in the race or in the send of the filler.
CancelledRacing ==
    /\ cancel /\ cancel' = FALSE
    /\ \/ wpc = "race" /\ UNCHANGED sent
       \/ wpc = "filler" /\ (UNCHANGED sent \/ Delivered("filler"))
    /\ Unwind("cancel")
    /\ UNCHANGED <<inboxVars, idle, flagVars, history, lost, spc>>

Worker ==
    \/ Wake \/ RaceWon \/ TimerStopped \/ RaceTimedOut \/ FillerSent \/ FillerFails
    \/ Awaited \/ CleanedDispatch \/ CleanedTimer
    \/ AnswerSent \/ ReplyFails \/ FallbackFails \/ FallbackCrashes
    \/ CancelledWaiting \/ CancelledSending \/ CancelledRacing

-----------------------------------------------------------------------------
(* The dispatch task and the timer task of event e.                        *)

\* Mutant: the wrong half of the history is dropped.
CompactHistoryFront(turns) ==
    IF Len(turns) <= 1 THEN turns ELSE SubSeq(turns, 1, Len(turns) \div 2)

\* Without a compactor the oldest half of the history is dropped.
CompactHistory(turns) ==
    IF Len(turns) <= 1 THEN turns ELSE SubSeq(turns, (Len(turns) \div 2) + 1, Len(turns))

\* The history may be over its token cap, whatever its number of turns.
DispatchStarts(e) ==
    /\ dispatch[e] = "new"
    /\ dispatch' = [dispatch EXCEPT ![e] = "call"]
    /\ history' \in {history, CompactHistory(history)}
    /\ UNCHANGED <<inboxVars, idle, flagVars, workerVars, timer, ghostVars, spc>>

DispatchReturns(e) ==
    /\ dispatch[e] = "call"
    /\ dispatch' = [dispatch EXCEPT ![e] = "ok"]
    /\ history' = history \o <<[role |-> "user", event |-> e],
                               [role |-> "assistant", event |-> e]>>
    /\ UNCHANGED <<inboxVars, idle, flagVars, workerVars, timer, ghostVars, spc>>

DispatchRaises(e) ==
    /\ dispatch[e] = "call"
    /\ \E exc \in {"unavailable", "error"} : dispatch' = [dispatch EXCEPT ![e] = exc]
    /\ UNCHANGED <<inboxVars, idle, flagVars, workerVars, timer, history, ghostVars,
                   spc>>

DispatchCancelled(e) ==
    /\ dispatch[e] = "cancel"
    /\ dispatch' = [dispatch EXCEPT ![e] = "cancelled"]
    /\ UNCHANGED <<inboxVars, idle, flagVars, workerVars, timer, history, ghostVars,
                   spc>>

Dispatch(e) ==
    DispatchStarts(e) \/ DispatchReturns(e) \/ DispatchRaises(e) \/ DispatchCancelled(e)

\* The sleep ends or is cancelled.  The loop runs ready callbacks in the order
\* they were scheduled, so it never ends before the dispatch task first runs.
TimerEnds(e) ==
    /\ (timer[e] = "armed" /\ dispatch[e] # "new") \/ timer[e] = "cancel"
    /\ timer' = [timer EXCEPT ![e] = "done"]
    /\ UNCHANGED <<inboxVars, idle, flagVars, workerVars, dispatch, history, ghostVars,
                   spc>>

-----------------------------------------------------------------------------
(* A caller s that drains the actor and then shuts it down.                *)

\* What drain() takes for "the queue is empty and the worker has settled".
Settled == queue = <<>> /\ idle

WorkerDone == wpc \in DeadWorker

\* Mutant: shutdown cancels the dispatch task in the place of a worker that awaits it.
BeginShutdownOfCall(s) ==
    LET awaiting == wpc = "await" /\ dispatch[current] \in LiveDispatch IN
    /\ stopping' = TRUE
    /\ hasWorker /\ ~ WorkerDone
    /\ cancel' = (cancel \/ ~ awaiting)
    /\ dispatch' = IF awaiting THEN [dispatch EXCEPT ![current] = "cancel"] ELSE dispatch
    /\ spc' = [spc EXCEPT ![s] = "stopping"]
    /\ UNCHANGED <<inboxVars, idle, hasWorker, wpc, raising, current, timer, history,
                   ghostVars>>

\* shutdown(): cancel the worker task and await it.  Cancelling a worker that
\* awaits the dispatch task cancels that task.
BeginShutdown(s) ==
    /\ stopping' = TRUE
    /\ \/ /\ hasWorker /\ ~ WorkerDone
          /\ cancel' = TRUE
          /\ dispatch' = IF wpc = "await" /\ dispatch[current] \in LiveDispatch
                         THEN [dispatch EXCEPT ![current] = "cancel"] ELSE dispatch
          /\ spc' = [spc EXCEPT ![s] = "stopping"]
          /\ UNCHANGED hasWorker
       \/ /\ ~ hasWorker \/ WorkerDone
          /\ hasWorker' = FALSE
          /\ spc' = [spc EXCEPT ![s] = "done"]
          /\ UNCHANGED <<cancel, dispatch>>
    /\ UNCHANGED <<inboxVars, idle, wpc, raising, current, timer, history, ghostVars>>

\* drain() tests before it first sleeps, and then at every poll.
DrainWaits(s) ==
    /\ spc[s] = "none" /\ ~ Settled
    /\ spc' = [spc EXCEPT ![s] = "draining"]
    /\ UNCHANGED <<inboxVars, idle, flagVars, workerVars, taskVars, ghostVars>>

DrainReturns(s) ==
    /\ spc[s] \in {"none", "draining"} /\ Settled
    /\ BeginShutdown(s)

\* A worker just created runs long before any drain times out.
DrainTimesOut(s) ==
    /\ spc[s] = "draining" /\ ~ Settled /\ wpc # "created"
    /\ BeginShutdown(s)

ShutdownReturns(s) ==
    /\ spc[s] = "stopping" /\ WorkerDone
    /\ hasWorker' = FALSE
    /\ spc' = [spc EXCEPT ![s] = "done"]
    /\ UNCHANGED <<inboxVars, idle, stopping, workerVars, taskVars, ghostVars>>

Stopper(s) == DrainWaits(s) \/ DrainReturns(s) \/ DrainTimesOut(s) \/ ShutdownReturns(s)

-----------------------------------------------------------------------------

Next ==
    \/ Receive \/ MarkIdle \/ CancelIdle
    \/ Worker
    \/ \E e \in Events : Dispatch(e) \/ TimerEnds(e)
    \/ \E s \in Stoppers : Stopper(s)

Spec == Init /\ [][Next]_vars

\* The event loop runs every task that is ready; cortex_call and the session
\* return or raise; a drain that has begun polls until it returns or times out.
Fairness ==
    /\ WF_vars(Worker)
    /\ \A e \in Events : WF_vars(Dispatch(e)) /\ WF_vars(TimerEnds(e))
    /\ \A s \in Stoppers : WF_vars(spc[s] # "none" /\ Stopper(s))

FairSpec == Spec /\ Fairness

-----------------------------------------------------------------------------
(* Properties.                                                             *)

Taken == accepted - Len(queue)

Answered(e) == \E i \in 1 .. Len(sent) : sent[i].event = e /\ sent[i].kind # "filler"

Service == INSTANCE ThreadService WITH taken <- Taken, serving <- current, out <- sent

\* The worker, its race, its cleanup and its cancellation implement the service:
\* FIFO, one event at a time, one "one moment" and one answer at most for each.
ImplementsService == Service!Spec

\* What the worker waits for: an event, cortex, or the session.
Stage ==
    IF wpc \in {"created", "get"} THEN "get"
    ELSE IF WorkerDone THEN "dead"
    ELSE IF dispatch[current] \in LiveDispatch THEN "busy"
    ELSE "send"

Thread == INSTANCE ThreadWorker
          WITH waiting <- Len(queue), marked <- idle, stage <- Stage,
               cancelled <- cancel \/ raising = "cancel"

\* The actor is no more than the worker the pool's model counts on: a message
\* taken clears the idle marker, the worker rests only on an empty queue, a send
\* never begins while cortex runs, and a cancellation ends the worker or is
\* swallowed after the call, never while one is in flight.
ImplementsWorker == Thread!Spec

\* A dispatch or a timer that still runs belongs to the event the worker is on:
\* the cleanup of the race leaks neither when the worker is cancelled, when a
\* filler cannot be sent or when the worker ends, so cortex calls of one thread
\* never overlap and never touch the history of a later event.
NoOrphanTasks ==
    \A e \in Events :
        dispatch[e] \in LiveDispatch \/ timer[e] \in LiveTimer => e = current

\* The outcomes of a dispatch that the worker can go on from, now or later.
Usable == {"new", "call"} \cup DOMAIN AfterDispatch

\* No await of the worker is a dead end: what it waits for is the outcome of a task
\* of its own event that still runs or has one the worker can use, unless its own
\* cancellation is on the way; a cleanup knows what it has to raise at its end.
AwaitsEnd ==
    /\ wpc = "created" => queue # <<>>
    /\ wpc \in {"race", "filler"} =>
          dispatch[current] \in Usable /\ timer[current] \in {"armed", "done"}
    /\ wpc = "timerWait" => Resolved /\ timer[current] \in {"cancel", "done"}
    /\ wpc = "await" => dispatch[current] \in Usable \/ cancel
    /\ wpc \in {"cleanupD", "cleanupT"} => raising # "none"

\* An event that is over stays over: the worker does not come back to it, none of
\* its tasks moves again, and nothing more is sent about it, neither a late reply
\* of a dispatch that was given up nor a "one moment" of a timer that was left.
OverIsOver ==
    [][\A e \in 1 .. Taken : e # current =>
          /\ e # current' /\ dispatch'[e] = dispatch[e] /\ timer'[e] = timer[e]
          /\ \A i \in Len(sent) + 1 .. Len(sent') : sent'[i].event # e]_vars

\* The history the next cortex call gets is a run of whole exchanges in the order
\* of the events, of which compaction may have cut the first in two: no question
\* without its answer, none twice, none of an event dispatched at the same time.
HistoryWellFormed ==
    /\ history # <<>> => history[Len(history)].role = "assistant"
    /\ \A i \in 1 .. Len(history) - 1 :
          IF history[i].role = "user"
          THEN history[i + 1] = [role |-> "assistant", event |-> history[i].event]
          ELSE /\ history[i + 1].role = "user"
               /\ history[i + 1].event > history[i].event

\* An event that left the queue is being served, was answered, or could not be
\* answered because the send of the fallback itself raised, unless the actor is
\* being shut down: no other failure of cortex or of the session is silent.
NoSilentLoss ==
    \A e \in 1 .. Taken : e = current \/ Answered(e) \/ e \in lost \/ stopping

\* The worker ended because the fallback of a CortexUnavailable could not be sent.
CrashedOnUnavailable == wpc = "crashed" /\ \E e \in lost : dispatch[e] = "unavailable"

\* Every accepted event is served to its end, whatever cortex and the session
\* raise, unless the actor is shut down or its worker ended on that one send: no
\* other send that fails ends the worker, nor leaves it waiting for good.
EventuallyServed ==
    \A e \in Events :
        accepted >= e ~> (Taken >= e /\ current # e) \/ stopping \/ CrashedOnUnavailable

\* A cancellation that reaches the worker anywhere but at the awaits that suppress
\* it ends the worker: no handler of the loop takes CancelledError for an error.
CancelHonoured ==
    cancel /\ wpc \notin {"timerWait", "cleanupD", "cleanupT"} ~> WorkerDone

-----------------------------------------------------------------------------
(* What the docstrings say and the code does not do.                       *)

\* drain: "Wait for the FIFO queue to empty AND the worker to settle."  The idle
\* marker it tests is also set when the sender leaves, in the middle of an event.
DrainSettles == [][\A s \in Stoppers : DrainReturns(s) => current = 0]_vars

\* shutdown: "Cancel the worker task and wait for it to settle."  A cancellation
\* suppressed with the timer's own leaves the wait without an end.
ShutdownEnds == \A s \in Stoppers : spc[s] = "stopping" ~> spc[s] = "done"

\* _worker_loop: "Drain queue -> dispatch -> reply, forever (until cancelled)."
\* The fallback of `except CortexUnavailable` is sent outside of any try.
WorkerRunsUntilCancelled == WorkerDone => stopping
=============================================================================
