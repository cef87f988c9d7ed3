------------------------ MODULE ChatThreadActorProofs ------------------------
(***************************************************************************)
(* ChatThreadActor proved for every queue depth, every number of events    *)
(* and every set of stoppers: type correctness, the refinements of         *)
(* ThreadService and ThreadWorker, and that no task is orphaned, no event  *)
(* lost silently and no exchange of the history torn.                      *)
(***************************************************************************)
EXTENDS ChatThreadActor, SequenceTheorems, TLAPS

-----------------------------------------------------------------------------
(* Type correctness.                                                       *)

\* The awaits at which the worker is in the middle of an event.
Busy == {"race", "timerWait", "filler", "await", "reply", "fallbackCU", "fallback",
         "cleanupD", "cleanupT"}

\* The worker has an event exactly in the middle of one, and has its dispatch's
\* outcome when it waits for the timer to stop.
CurrentInv ==
    /\ current # 0 <=> wpc \in Busy
    /\ wpc = "timerWait" => Resolved

TypeInv == TypeOK /\ CurrentInv

\* A taken event is the head of the queue, and its tasks are created.
LEMMA TakeType ==
    ASSUME TypeOK, Take
    PROVE  /\ queue' \in Seq(Events) /\ Len(queue') <= QueueDepth
           /\ current' \in Events /\ idle' = FALSE /\ wpc' = "race"
           /\ dispatch' \in [Events -> DispatchStates]
           /\ timer' \in [Events -> TimerStates]
<1>1. queue \in Seq(Events) /\ queue # <<>>
  BY DEF TypeOK, Take
<1>2. /\ Head(queue) \in Events
      /\ Tail(queue) \in Seq(Events)
      /\ Len(Tail(queue)) = Len(queue) - 1
      /\ Len(queue) \in Nat
  BY <1>1, HeadTailProperties, LenProperties
<1>3. "new" \in DispatchStates /\ "armed" \in TimerStates
  BY DEF DispatchStates, LiveDispatch, TimerStates, LiveTimer
<1> QED
  BY <1>2, <1>3, QueueDepthAssumption DEF TypeOK, Take

LEMMA LoopTopType ==
    ASSUME TypeOK, LoopTop
    PROVE  /\ queue' \in Seq(Events) /\ Len(queue') <= QueueDepth
           /\ idle' \in BOOLEAN
           /\ \/ wpc' = "race" /\ current' \in Events
              \/ wpc' = "get" /\ current' = 0
           /\ dispatch' \in [Events -> DispatchStates]
           /\ timer' \in [Events -> TimerStates]
BY TakeType DEF TypeOK, LoopTop

\* A delivered message is one, when the worker is in the middle of an event.
LEMMA DeliveredType ==
    ASSUME TypeInv, wpc \in Busy, NEW k \in MessageKinds, Delivered(k)
    PROVE  sent' \in Seq(Message)
<1>1. current \in Events
  BY MaxEventsAssumption DEF TypeInv, TypeOK, CurrentInv, Events
<1>2. [event |-> current, kind |-> k] \in Message
  BY <1>1 DEF Message
<1> QED BY <1>2, AppendProperties DEF Delivered, TypeInv, TypeOK

LEMMA CompactType ==
    ASSUME NEW turns \in Seq(Turn)
    PROVE  CompactHistory(turns) \in Seq(Turn)
<1>1. Len(turns) \in Nat /\ \A i \in 1 .. Len(turns) : turns[i] \in Turn
  BY LenProperties, ElementOfSeq
<1> DEFINE h == Len(turns) \div 2
<1>2. h \in Nat
  BY <1>1
<1>3. \A i \in h + 1 .. Len(turns) : turns[i] \in Turn
  BY <1>1, <1>2
<1>4. h + 1 \in Int /\ Len(turns) \in Int
  BY <1>1, <1>2
<1> HIDE DEF h
<1>5. SubSeq(turns, h + 1, Len(turns)) \in Seq(Turn)
  BY <1>3, <1>4, SubSeqProperties
<1> QED BY <1>5 DEF CompactHistory, h

\* The end of the cleanup, for an exception the cleanup may hold.
LEMMA ReraiseType ==
    ASSUME TypeOK, current # 0, NEW exc \in {"cancel", "error"}, Reraise(exc)
    PROVE  current' \in 0 .. MaxEvents /\ wpc' \in WorkerStates /\ wpc' # "timerWait"
           /\ (current' # 0 <=> wpc' \in Busy)
BY MaxEventsAssumption DEF TypeOK, Reraise, Die, Busy, WorkerStates, DeadWorker

\* What the tuples of variables stand for when they are left unchanged.
LEMMA Groups ==
    /\ (UNCHANGED inboxVars) <=> (accepted' = accepted /\ queue' = queue)
    /\ (UNCHANGED flagVars) <=> (stopping' = stopping /\ hasWorker' = hasWorker)
    /\ (UNCHANGED workerVars) <=> (wpc' = wpc /\ cancel' = cancel /\ raising' = raising
                                 /\ current' = current)
    /\ (UNCHANGED taskVars) <=> (dispatch' = dispatch /\ timer' = timer
                               /\ history' = history)
    /\ (UNCHANGED ghostVars) <=> (sent' = sent /\ lost' = lost)
BY DEF inboxVars, flagVars, workerVars, taskVars, ghostVars

\* A worker with an outcome of its dispatch goes on to answer.
LEMMA AfterDispatchType ==
    ASSUME Resolved
    PROVE  AfterDispatch[dispatch[current]] \in {"reply", "fallbackCU", "fallback"}
BY DEF Resolved, AfterDispatch

LEMMA CurrentInEvents ==
    ASSUME TypeInv, wpc \in Busy
    PROVE  current \in Events
BY MaxEventsAssumption DEF TypeInv, TypeOK, CurrentInv, Events

LEMMA UnwindTimerType ==
    ASSUME TypeInv, wpc \in Busy, NEW exc \in {"none", "cancel", "error"},
           UnwindTimer(exc)
    PROVE  /\ timer' \in [Events -> TimerStates]
           /\ raising' \in {"none", "cancel", "error"}
           /\ current' \in 0 .. MaxEvents /\ wpc' \in WorkerStates /\ wpc' # "timerWait"
           /\ (current' # 0 <=> wpc' \in Busy)
<1>1. current \in Events /\ current # 0 /\ current \in 0 .. MaxEvents
  BY CurrentInEvents DEF TypeInv, TypeOK, CurrentInv
<1>2. CASE timer[current] \in LiveTimer
  BY <1>1, <1>2 DEF UnwindTimer, TypeInv, TypeOK, TimerStates, LiveTimer, Busy, WorkerStates
<1>3. CASE timer[current] \notin LiveTimer
  <2>1. Reraise(exc) /\ raising' = "none" /\ UNCHANGED timer
    BY <1>3 DEF UnwindTimer
  <2>2. exc \in {"cancel", "error"}
    BY <2>1 DEF Reraise
  <2> QED BY <1>1, <2>1, <2>2, ReraiseType DEF TypeInv, TypeOK
<1> QED BY <1>2, <1>3

LEMMA UnwindType ==
    ASSUME TypeInv, wpc \in Busy, NEW exc \in {"none", "cancel", "error"}, Unwind(exc)
    PROVE  /\ dispatch' \in [Events -> DispatchStates]
           /\ timer' \in [Events -> TimerStates]
           /\ raising' \in {"none", "cancel", "error"}
           /\ current' \in 0 .. MaxEvents /\ wpc' \in WorkerStates /\ wpc' # "timerWait"
           /\ (current' # 0 <=> wpc' \in Busy)
<1>1. current \in Events /\ current # 0 /\ current \in 0 .. MaxEvents
  BY CurrentInEvents DEF TypeInv, TypeOK, CurrentInv
<1>2. CASE dispatch[current] \in LiveDispatch
  BY <1>1, <1>2 DEF Unwind, TypeInv, TypeOK, DispatchStates, LiveDispatch, Busy, WorkerStates
<1>3. CASE dispatch[current] \notin LiveDispatch
  BY <1>3, UnwindTimerType DEF Unwind, TypeInv, TypeOK
<1> QED BY <1>2, <1>3

LEMMA TypeInit == Init => TypeInv
<1> SUFFICES ASSUME Init PROVE TypeInv
  OBVIOUS
<1>1. <<1>> \in Seq(Events) /\ Len(<<1>>) = 1 /\ <<>> \in Seq(Turn) /\ <<>> \in Seq(Message)
  BY MaxEventsAssumption DEF Events
<1>2. /\ "none" \in DispatchStates /\ "none" \in TimerStates /\ "created" \in WorkerStates
      /\ "created" \notin Busy
  BY DEF DispatchStates, TimerStates, WorkerStates, Busy
<1>3. accepted \in 0 .. MaxEvents /\ Len(queue) <= QueueDepth /\ current \in 0 .. MaxEvents
  BY <1>1, QueueDepthAssumption, MaxEventsAssumption DEF Init
<1>4. TypeOK
  BY <1>1, <1>2, <1>3 DEF Init, TypeOK
<1> QED
  BY <1>2, <1>4 DEF Init, TypeInv, CurrentInv

\* The calls of the Assistant.
LEMMA TypeCalls == TypeInv /\ (Receive \/ MarkIdle \/ CancelIdle) => TypeInv'
<1> SUFFICES ASSUME TypeInv, Receive \/ MarkIdle \/ CancelIdle PROVE TypeInv'
  OBVIOUS
<1>1. CASE Receive
  <2>1. CASE Len(queue) < QueueDepth /\ accepted' = accepted + 1
             /\ queue' = Append(queue, accepted + 1)
    <3>1. accepted + 1 \in Events /\ queue \in Seq(Events) /\ QueueDepth \in Nat
      BY <1>1, MaxEventsAssumption, QueueDepthAssumption DEF Receive, TypeInv, TypeOK, Events
    <3>2. queue' \in Seq(Events) /\ Len(queue') <= QueueDepth /\ accepted' \in 0 .. MaxEvents
      BY <2>1, <3>1, AppendProperties, LenProperties DEF Events
    <3> QED BY <1>1, <3>2, Groups DEF Receive, TypeInv, TypeOK, CurrentInv, Resolved
  <2>2. CASE UNCHANGED <<accepted, queue>>
    BY <1>1, <2>2, Groups DEF Receive, TypeInv, TypeOK, CurrentInv, Resolved
  <2> QED BY <1>1, <2>1, <2>2 DEF Receive
<1>2. CASE MarkIdle
  BY <1>2, Groups DEF MarkIdle, TypeInv, TypeOK, CurrentInv, Resolved
<1>3. CASE CancelIdle
  BY <1>3, Groups DEF CancelIdle, TypeInv, TypeOK, CurrentInv, Resolved
<1> QED BY <1>1, <1>2, <1>3

\* The dispatch and timer tasks.
LEMMA TypeTasks ==
    ASSUME TypeInv, NEW e \in Events, Dispatch(e) \/ TimerEnds(e)
    PROVE  TypeInv'
<1>1. CASE DispatchStarts(e)
  <2>1. history' \in Seq(Turn)
    BY <1>1, CompactType DEF DispatchStarts, TypeInv, TypeOK
  <2> QED BY <1>1, <2>1, Groups
      DEF DispatchStarts, TypeInv, TypeOK, CurrentInv, Resolved, AfterDispatch, DispatchStates,
          LiveDispatch
<1>2. CASE DispatchReturns(e)
  <2>1. history' \in Seq(Turn)
    <3> DEFINE turns == <<[role |-> "user", event |-> e], [role |-> "assistant", event |-> e]>>
    <3>1. turns \in Seq(Turn)
      BY DEF Turn
    <3> QED BY <1>2, <3>1, ConcatProperties DEF DispatchReturns, TypeInv, TypeOK
  <2> QED BY <1>2, <2>1, Groups
      DEF DispatchReturns, TypeInv, TypeOK, CurrentInv, Resolved, AfterDispatch, DispatchStates,
          LiveDispatch
<1>3. CASE DispatchRaises(e)
  BY <1>3, Groups
     DEF DispatchRaises, TypeInv, TypeOK, CurrentInv, Resolved, AfterDispatch, DispatchStates,
         LiveDispatch
<1>4. CASE DispatchCancelled(e)
  BY <1>4, Groups
     DEF DispatchCancelled, TypeInv, TypeOK, CurrentInv, Resolved, AfterDispatch, DispatchStates,
         LiveDispatch
<1>5. CASE TimerEnds(e)
  BY <1>5, Groups DEF TimerEnds, TypeInv, TypeOK, CurrentInv, Resolved, TimerStates
<1> QED BY <1>1, <1>2, <1>3, <1>4, <1>5 DEF Dispatch

\* The callers that drain and shut down.
LEMMA TypeStoppers ==
    ASSUME TypeInv, NEW s \in Stoppers, Stopper(s)
    PROVE  TypeInv'
<1>1. CASE DrainWaits(s)
  BY <1>1, Groups DEF DrainWaits, TypeInv, TypeOK, CurrentInv, Resolved
<1>2. CASE BeginShutdown(s)
  <2>1. dispatch' \in [Events -> DispatchStates]
    <3>1. CASE wpc = "await" /\ dispatch[current] \in LiveDispatch
      BY <1>2, <3>1 DEF BeginShutdown, TypeInv, TypeOK, DispatchStates, LiveDispatch
    <3>2. CASE ~ (wpc = "await" /\ dispatch[current] \in LiveDispatch)
      BY <1>2, <3>2 DEF BeginShutdown, TypeInv, TypeOK
    <3> QED BY <3>1, <3>2
  <2>2. wpc = "timerWait" => dispatch' = dispatch
    BY <1>2 DEF BeginShutdown
  <2>3. spc' \in [Stoppers -> {"none", "draining", "stopping", "done"}]
        /\ cancel' \in BOOLEAN /\ hasWorker' \in BOOLEAN /\ stopping' \in BOOLEAN
    BY <1>2 DEF BeginShutdown, TypeInv, TypeOK
  <2>4. UNCHANGED <<accepted, queue, idle, wpc, raising, current, timer, history, sent, lost>>
    BY <1>2, Groups DEF BeginShutdown
  <2> QED BY <2>1, <2>2, <2>3, <2>4 DEF TypeInv, TypeOK, CurrentInv, Resolved
<1>3. CASE ShutdownReturns(s)
  BY <1>3, Groups DEF ShutdownReturns, TypeInv, TypeOK, CurrentInv, Resolved
<1> QED BY <1>1, <1>2, <1>3 DEF Stopper, DrainReturns, DrainTimesOut

\* The worker, one step per await it is resumed at.
LEMMA TypeWorker == TypeInv /\ Worker => TypeInv'
<1> SUFFICES ASSUME TypeInv, Worker PROVE TypeInv'
  OBVIOUS
<1> USE Groups
<1>0. wpc \in Busy => current \in Events /\ current # 0
  BY CurrentInEvents DEF TypeInv, CurrentInv
<1>00. /\ 0 \in 0 .. MaxEvents /\ "cancelled" \in WorkerStates /\ "cancelled" \notin Busy
       /\ "cancelled" # "timerWait"
  BY MaxEventsAssumption DEF WorkerStates, DeadWorker, Busy
<1>1. CASE Wake
  <2>1. /\ queue' \in Seq(Events) /\ Len(queue') <= QueueDepth
        /\ current' \in Events /\ idle' = FALSE /\ wpc' = "race"
        /\ dispatch' \in [Events -> DispatchStates]
        /\ timer' \in [Events -> TimerStates]
    BY <1>1, TakeType DEF Wake, TypeInv
  <2>2. "race" \in Busy /\ "race" \in WorkerStates
    BY DEF Busy, WorkerStates
  <2>3. current' \in 0 .. MaxEvents /\ current' # 0
    BY <2>1 DEF Events
  <2> QED BY <1>1, <2>1, <2>2, <2>3 DEF Wake, TypeInv, TypeOK, CurrentInv
<1>2. CASE RaceWon
  <2>1. current \in Events
    BY <1>0, <1>2 DEF RaceWon, Busy
  <2>2. CASE timer[current] = "done"
    BY <1>2, <2>2, AfterDispatchType
       DEF RaceWon, TypeInv, TypeOK, CurrentInv, WorkerStates, Busy
  <2>3. CASE timer[current] = "armed"
    BY <1>2, <2>1, <2>3
       DEF RaceWon, TypeInv, TypeOK, CurrentInv, WorkerStates, Busy, Resolved, TimerStates,
           LiveTimer
  <2> QED BY <1>2, <2>2, <2>3 DEF RaceWon
<1>3. CASE TimerStopped
  <2>1. wpc' \in {"reply", "fallbackCU", "fallback"}
    BY <1>3, AfterDispatchType DEF TimerStopped, TypeInv, CurrentInv
  <2> QED BY <1>3, <2>1 DEF TimerStopped, TypeInv, TypeOK, CurrentInv, WorkerStates, Busy
<1>4. CASE RaceTimedOut
  BY <1>4 DEF RaceTimedOut, TypeInv, TypeOK, CurrentInv, WorkerStates, Busy
<1>5. CASE FillerSent
  <2>1. sent' \in Seq(Message)
    BY <1>5, DeliveredType DEF FillerSent, Busy, MessageKinds
  <2>2. wpc' \in {"reply", "fallbackCU", "fallback", "await"}
    BY <1>5, AfterDispatchType DEF FillerSent
  <2> QED BY <1>5, <2>1, <2>2 DEF FillerSent, TypeInv, TypeOK, CurrentInv, WorkerStates, Busy
<1>6. CASE Awaited
  <2>1. wpc' \in {"reply", "fallbackCU", "fallback"}
    BY <1>6, AfterDispatchType DEF Awaited
  <2> QED BY <1>6, <2>1 DEF Awaited, TypeInv, TypeOK, CurrentInv, WorkerStates, Busy
<1>7. CASE FillerFails
  <2>1. wpc \in Busy
    BY <1>7 DEF FillerFails, Busy
  <2>2. "error" \in {"none", "cancel", "error"} /\ Unwind("error")
    BY <1>7 DEF FillerFails
  <2> QED BY <1>7, <2>1, <2>2, UnwindType DEF FillerFails, TypeInv, TypeOK, CurrentInv
<1>8. CASE CleanedDispatch
  <2>1. wpc \in Busy /\ raising \in {"none", "cancel", "error"} /\ UnwindTimer(raising)
    BY <1>8 DEF CleanedDispatch, Busy, TypeInv, TypeOK
  <2> QED BY <1>8, <2>1, UnwindTimerType DEF CleanedDispatch, TypeInv, TypeOK, CurrentInv
<1>9. CASE CleanedTimer
  <2>1. current # 0 /\ raising \in {"cancel", "error"} /\ Reraise(raising) /\ TypeOK
    BY <1>0, <1>9 DEF CleanedTimer, Reraise, Busy, TypeInv
  <2> QED BY <1>9, <2>1, ReraiseType DEF CleanedTimer, TypeInv, TypeOK, CurrentInv
<1>10. ASSUME LoopTop, sent' \in Seq(Message), lost' \subseteq Events,
              UNCHANGED <<accepted, flagVars, cancel, raising, history, spc>>
       PROVE  TypeInv'
  <2>1. /\ queue' \in Seq(Events) /\ Len(queue') <= QueueDepth
        /\ idle' \in BOOLEAN
        /\ \/ wpc' = "race" /\ current' \in Events
           \/ wpc' = "get" /\ current' = 0
        /\ dispatch' \in [Events -> DispatchStates]
        /\ timer' \in [Events -> TimerStates]
    BY <1>10, LoopTopType DEF TypeInv
  <2>2. current' \in 0 .. MaxEvents /\ wpc' \in WorkerStates /\ wpc' # "timerWait"
        /\ (current' # 0 <=> wpc' \in Busy)
    BY <2>1, MaxEventsAssumption DEF Events, WorkerStates, Busy
  <2> QED BY <1>10, <2>1, <2>2 DEF TypeInv, TypeOK, CurrentInv
<1>11. CASE AnswerSent
  <2>1. SendKind[wpc] \in MessageKinds /\ wpc \in Busy
    BY <1>11 DEF AnswerSent, SendKind, MessageKinds, Busy
  <2>2. sent' \in Seq(Message)
    BY <1>11, <2>1, DeliveredType DEF AnswerSent
  <2> QED BY <1>10, <1>11, <2>2 DEF AnswerSent, TypeInv, TypeOK
<1>12. CASE ReplyFails
  BY <1>12 DEF ReplyFails, TypeInv, TypeOK, CurrentInv, WorkerStates, Busy
<1>13. CASE FallbackFails
  <2>1. lost' \subseteq Events
    BY <1>0, <1>13 DEF FallbackFails, Busy, TypeInv, TypeOK
  <2> QED BY <1>10, <1>13, <2>1 DEF FallbackFails, TypeInv, TypeOK
<1>14. CASE FallbackCrashes
  <2>1. lost' \subseteq Events
    BY <1>0, <1>14 DEF FallbackCrashes, Busy, TypeInv, TypeOK
  <2>2. current' \in 0 .. MaxEvents /\ wpc' \in WorkerStates /\ wpc' \notin Busy
    BY <1>14, MaxEventsAssumption DEF FallbackCrashes, WorkerStates, DeadWorker, Busy
  <2> QED BY <1>14, <2>1, <2>2 DEF FallbackCrashes, TypeInv, TypeOK, CurrentInv
<1>15. CASE CancelledWaiting
  BY <1>00, <1>15 DEF CancelledWaiting, Die, TypeInv, TypeOK, CurrentInv
<1>16. CASE CancelledSending
  <2>1. SendKind[wpc] \in MessageKinds /\ wpc \in Busy
    BY <1>16 DEF CancelledSending, SendKind, MessageKinds, Busy
  <2>2. sent' \in Seq(Message)
    BY <1>16, <2>1, DeliveredType DEF CancelledSending, TypeInv, TypeOK
  <2> QED BY <1>00, <1>16, <2>2 DEF CancelledSending, Die, TypeInv, TypeOK, CurrentInv
<1>17. CASE CancelledRacing
  <2>1. wpc \in Busy /\ "filler" \in MessageKinds
    BY <1>17 DEF CancelledRacing, Busy, MessageKinds
  <2>2. sent' \in Seq(Message)
    BY <1>17, <2>1, DeliveredType DEF CancelledRacing, TypeInv, TypeOK
  <2>3. "cancel" \in {"none", "cancel", "error"} /\ Unwind("cancel")
    BY <1>17 DEF CancelledRacing
  <2> QED BY <1>17, <2>1, <2>2, <2>3, UnwindType
          DEF CancelledRacing, TypeInv, TypeOK, CurrentInv
<1> QED
  BY <1>1, <1>2, <1>3, <1>4, <1>5, <1>6, <1>7, <1>8, <1>9, <1>11, <1>12, <1>13, <1>14,
     <1>15, <1>16, <1>17 DEF Worker

LEMMA TypeStutter == TypeInv /\ UNCHANGED vars => TypeInv'
BY Groups DEF vars, TypeInv, TypeOK, CurrentInv, Resolved

LEMMA TypeStep == TypeInv /\ [Next]_vars => TypeInv'
BY TypeCalls, TypeTasks, TypeStoppers, TypeWorker, TypeStutter DEF Next

\* Every variable keeps its type, whatever the depth, the bound and the stoppers.
THEOREM ActorTypeOK == Spec => []TypeOK
<1>1. TypeInv => TypeOK
  BY DEF TypeInv
<1> QED BY <1>1, TypeInit, TypeStep, PTL DEF Spec

-----------------------------------------------------------------------------
(* The queue, what was sent, and the refinement of ThreadService.          *)

\* The awaits before which nothing was sent about the current event.
Unanswered == {"race", "timerWait", "filler"}

\* The queue holds the accepted events that were not taken, in order, and the
\* worker is on the last one taken.
FIFOInv ==
    /\ Len(queue) <= accepted
    /\ \A i \in 1 .. Len(queue) : queue[i] = Taken + i
    /\ current # 0 => current = Taken

\* What was sent is about events already taken, and the current one is not among
\* them before its filler.
SentInv ==
    /\ \A i \in 1 .. Len(sent) : sent[i].event <= Taken
    /\ wpc \in Unanswered => \A i \in 1 .. Len(sent) : sent[i].event # current

FlowInv == TypeInv /\ FIFOInv /\ SentInv

LEMMA FlowTypes ==
    ASSUME TypeInv
    PROVE  /\ accepted \in Nat /\ Len(queue) \in Nat /\ Len(sent) \in Nat /\ Taken \in Int
           /\ current \in Nat
           /\ \A i \in 1 .. Len(sent) : sent[i].event \in Nat
<1>1. \A i \in 1 .. Len(sent) : sent[i] \in Message
  BY ElementOfSeq DEF TypeInv, TypeOK
<1> QED BY <1>1, LenProperties DEF TypeInv, TypeOK, Taken, Message, Events

\* A step that leaves the queue, the current event and the chat alone.
LEMMA QuietStep ==
    ASSUME FlowInv, UNCHANGED <<accepted, queue, current, sent>>,
           wpc' \in Unanswered => wpc \in Unanswered
    PROVE  FIFOInv' /\ SentInv' /\ UNCHANGED Service!vars
BY DEF FlowInv, FIFOInv, SentInv, Taken, Service!vars

\* Taking the head of the queue is the abstract TakeNext.
LEMMA TakeFlow ==
    ASSUME FlowInv, Take, accepted' = accepted,
           \A i \in 1 .. Len(sent') : sent'[i].event \in Nat /\ sent'[i].event <= Taken
    PROVE  FIFOInv' /\ SentInv' /\ Service!TakeNext
<1>1. queue \in Seq(Events) /\ queue # <<>> /\ queue' = Tail(queue) /\ current' = Head(queue)
  BY DEF FlowInv, TypeInv, TypeOK, Take
<1>2. /\ Len(queue) \in Nat \ {0} /\ Head(queue) = queue[1]
      /\ Len(queue') = Len(queue) - 1
      /\ \A i \in 1 .. Len(queue') : queue'[i] = queue[i + 1]
  BY <1>1, HeadTailProperties, LenProperties, EmptySeq
<1>3. accepted \in Nat /\ Taken \in Int /\ Taken' = Taken + 1
  BY <1>2, FlowTypes DEF FlowInv, Taken
<1>4. current' = Taken + 1
  BY <1>1, <1>2 DEF FlowInv, FIFOInv
<1>5. \A i \in 1 .. Len(queue') : queue'[i] = Taken' + i
  BY <1>2, <1>3 DEF FlowInv, FIFOInv
<1>6. FIFOInv'
  BY <1>2, <1>3, <1>4, <1>5 DEF FlowInv, FIFOInv
<1>7. SentInv'
  BY <1>3, <1>4 DEF SentInv
<1>8. Taken < accepted
  BY <1>2, <1>3 DEF Taken
<1> QED BY <1>3, <1>4, <1>6, <1>7, <1>8 DEF Service!TakeNext

\* A message about the current event is delivered.
LEMMA DeliveredFlow ==
    ASSUME FlowInv, wpc \in Busy, NEW k \in MessageKinds, Delivered(k)
    PROVE  /\ current # 0 /\ Taken \in Int
           /\ \A i \in 1 .. Len(sent') : sent'[i].event \in Nat /\ sent'[i].event <= Taken
           /\ sent' = Append(sent, [event |-> current, kind |-> k])
<1>1. current \in Events /\ current # 0 /\ current = Taken
  BY CurrentInEvents DEF FlowInv, FIFOInv, TypeInv, CurrentInv
<1>2. sent \in Seq(Message) /\ [event |-> current, kind |-> k] \in Message
  BY <1>1 DEF Message, FlowInv, TypeInv, TypeOK
<1>3. /\ Len(sent') = Len(sent) + 1
      /\ \A i \in 1 .. Len(sent) : sent'[i] = sent[i]
      /\ sent'[Len(sent) + 1] = [event |-> current, kind |-> k]
  BY <1>2, AppendProperties DEF Delivered
<1>4. Len(sent) \in Nat /\ \A i \in 1 .. Len(sent) : sent[i].event \in Nat /\ sent[i].event <= Taken
  BY FlowTypes DEF FlowInv, SentInv
<1>5. \A i \in 1 .. Len(sent') : i \in 1 .. Len(sent) \/ i = Len(sent) + 1
  BY <1>3, <1>4
<1> QED BY <1>1, <1>3, <1>4, <1>5, FlowTypes DEF Delivered, FlowInv, Events

\* The worker rests: the abstract Rest.
LEMMA RestFlow ==
    ASSUME FlowInv, current' = 0, UNCHANGED <<accepted, queue>>, wpc' \notin Unanswered,
           \A i \in 1 .. Len(sent') : sent'[i].event \in Nat /\ sent'[i].event <= Taken
    PROVE  FIFOInv' /\ SentInv' /\ Service!Rest
BY DEF FlowInv, FIFOInv, SentInv, Taken, Service!Rest

\* A delivery that keeps the worker on its event.
LEMMA SentFlow ==
    ASSUME FlowInv, current' = current, UNCHANGED <<accepted, queue>>,
           wpc' \notin Unanswered,
           \A i \in 1 .. Len(sent') : sent'[i].event \in Nat /\ sent'[i].event <= Taken
    PROVE  FIFOInv' /\ SentInv' /\ Taken' = Taken
BY DEF FlowInv, FIFOInv, SentInv, Taken

LEMMA UnwindFlow ==
    ASSUME NEW exc, Unwind(exc) \/ UnwindTimer(exc) \/ Reraise(exc)
    PROVE  current' \in {0, current} /\ wpc' \notin Unanswered
BY DEF Unwind, UnwindTimer, Reraise, Die, Unanswered

\* The settlement of the current event.
LEMMA SettleFlow ==
    ASSUME FlowInv, wpc \in Busy, UNCHANGED accepted,
           \/ UNCHANGED sent
           \/ \E k \in {"reply", "fallback"} : Delivered(k),
           \/ LoopTop
           \/ current' = 0 /\ UNCHANGED queue /\ wpc' \notin Unanswered
    PROVE  FIFOInv' /\ SentInv' /\ Service!Settle
<1>1. current # 0
  BY DEF FlowInv, TypeInv, CurrentInv
<1>2. \A i \in 1 .. Len(sent') : sent'[i].event \in Nat /\ sent'[i].event <= Taken
  <2>1. CASE UNCHANGED sent
    BY <2>1, FlowTypes DEF FlowInv, SentInv
  <2>2. ASSUME NEW k \in {"reply", "fallback"}, Delivered(k)
        PROVE  \A i \in 1 .. Len(sent') : sent'[i].event \in Nat /\ sent'[i].event <= Taken
    BY <2>2, DeliveredFlow DEF MessageKinds
  <2> QED BY <2>1, <2>2
<1>3. FIFOInv' /\ SentInv' /\ (Service!TakeNext \/ Service!Rest)
  <2>1. CASE Take
    BY <1>2, <2>1, TakeFlow
  <2>2. CASE current' = 0 /\ UNCHANGED queue /\ wpc' \notin Unanswered
    BY <1>2, <2>2, RestFlow
  <2>3. LoopTop => Take \/ (current' = 0 /\ UNCHANGED queue /\ wpc' \notin Unanswered)
    BY DEF LoopTop, Unanswered
  <2> QED BY <2>1, <2>2, <2>3
<1>4. \/ UNCHANGED sent
      \/ \E k \in Service!AnswerKinds :
            sent' = Append(sent, [event |-> current, kind |-> k])
  BY DEF Delivered, Service!AnswerKinds
<1> QED BY <1>1, <1>3, <1>4 DEF Service!Settle

\* The filler of the current event.
LEMMA NudgeFlow ==
    ASSUME FlowInv, wpc = "filler", Delivered("filler"), UNCHANGED <<accepted, queue>>,
           current' \in {0, current}, wpc' \notin Unanswered
    PROVE  FIFOInv' /\ SentInv' /\ Service!Nudge
<1>1. wpc \in Busy /\ wpc \in Unanswered /\ "filler" \in MessageKinds
  BY DEF Busy, Unanswered, MessageKinds
<1>2. /\ current # 0
      /\ \A i \in 1 .. Len(sent') : sent'[i].event \in Nat /\ sent'[i].event <= Taken
      /\ sent' = Append(sent, [event |-> current, kind |-> "filler"])
  BY <1>1, DeliveredFlow
<1>3. ~ Service!Received(current, {"filler"})
  BY <1>1 DEF FlowInv, SentInv, Service!Received
<1>4. FIFOInv' /\ SentInv' /\ Taken' = Taken
  BY <1>2, SentFlow, RestFlow DEF Service!Rest
<1> QED BY <1>2, <1>3, <1>4 DEF Service!Nudge

LEMMA FlowInit == Init => FlowInv /\ Service!Init
<1> SUFFICES ASSUME Init PROVE FlowInv /\ Service!Init
  OBVIOUS
<1>1. Len(queue) = 1 /\ queue[1] = 1 /\ Len(sent) = 0 /\ Taken = 0
  BY DEF Init, Taken
<1> QED BY <1>1, TypeInit DEF Init, FlowInv, FIFOInv, SentInv, Service!Init

\* Every step of the actor is a step of the service or leaves its variables alone.
LEMMA FlowStep == FlowInv /\ [Next]_vars => FlowInv' /\ [Service!Next]_(Service!vars)
<1> SUFFICES ASSUME FlowInv, [Next]_vars
             PROVE  FIFOInv' /\ SentInv' /\ [Service!Next]_(Service!vars)
  BY TypeStep DEF FlowInv
<1> USE Groups
<1> DEFINE Goal == FIFOInv' /\ SentInv' /\ [Service!Next]_(Service!vars)
<1>1. CASE Receive
  <2>1. CASE /\ Len(queue) < QueueDepth
             /\ accepted' = accepted + 1
             /\ queue' = Append(queue, accepted + 1)
    <3>1. queue \in Seq(Events) /\ accepted + 1 \in Events
      BY <1>1, FlowTypes, MaxEventsAssumption DEF Receive, FlowInv, TypeInv, TypeOK, Events
    <3>2. /\ Len(queue') = Len(queue) + 1
          /\ \A i \in 1 .. Len(queue) : queue'[i] = queue[i]
          /\ queue'[Len(queue) + 1] = accepted + 1
      BY <2>1, <3>1, AppendProperties
    <3>3. accepted \in Nat /\ Len(queue) \in Nat /\ Len(sent) \in Nat
      BY FlowTypes DEF FlowInv
    <3>4. UNCHANGED <<current, sent, wpc>> /\ Taken' = Taken
      BY <1>1, <2>1, <3>2, <3>3 DEF Receive, Taken
    <3>5. \A i \in 1 .. Len(queue') : queue'[i] = Taken + i
      <4>1. \A i \in 1 .. Len(queue') : i \in 1 .. Len(queue) \/ i = Len(queue) + 1
        BY <3>2, <3>3
      <4>2. Taken + (Len(queue) + 1) = accepted + 1
        BY <3>3 DEF Taken
      <4> QED BY <3>2, <4>1, <4>2 DEF FlowInv, FIFOInv
    <3>6. FIFOInv' /\ SentInv'
      BY <2>1, <3>2, <3>3, <3>4, <3>5 DEF FlowInv, FIFOInv, SentInv
    <3>7. Service!Accept
      BY <2>1, <3>3, <3>4 DEF Service!Accept, Taken
    <3> QED BY <3>6, <3>7 DEF Service!Next
  <2>2. CASE UNCHANGED <<accepted, queue>>
    BY <1>1, <2>2, QuietStep DEF Receive
  <2> QED BY <1>1, <2>1, <2>2 DEF Receive
<1>2. CASE MarkIdle \/ CancelIdle
  BY <1>2, QuietStep DEF MarkIdle, CancelIdle
<1>3. ASSUME NEW e \in Events, Dispatch(e) \/ TimerEnds(e) PROVE Goal
  BY <1>3, QuietStep
     DEF Dispatch, DispatchStarts, DispatchReturns, DispatchRaises, DispatchCancelled, TimerEnds
<1>4. ASSUME NEW s \in Stoppers, Stopper(s) PROVE Goal
  BY <1>4, QuietStep
     DEF Stopper, DrainWaits, DrainReturns, DrainTimesOut, BeginShutdown, ShutdownReturns
<1>5. CASE Wake
  <2>1. Take /\ accepted' = accepted /\ sent' = sent /\ current = 0
    BY <1>5 DEF Wake, FlowInv, TypeInv, CurrentInv, Busy
  <2>2. \A i \in 1 .. Len(sent') : sent'[i].event \in Nat /\ sent'[i].event <= Taken
    BY <2>1, FlowTypes DEF FlowInv, SentInv
  <2> QED BY <2>1, <2>2, TakeFlow DEF Service!Next, Service!Take
<1>6. CASE RaceWon \/ TimerStopped \/ RaceTimedOut \/ Awaited \/ ReplyFails
  BY <1>6, AfterDispatchType, QuietStep
     DEF RaceWon, TimerStopped, RaceTimedOut, Awaited, ReplyFails, Unanswered
<1>7. CASE FillerSent
  <2>1. wpc' \notin Unanswered
    BY <1>7, AfterDispatchType DEF FillerSent, Unanswered
  <2> QED BY <1>7, <2>1, NudgeFlow DEF FillerSent, Service!Next
<1>8. ASSUME wpc \in Busy, \/ FillerFails \/ CleanedDispatch \/ CleanedTimer
                           \/ CancelledRacing /\ UNCHANGED sent
      PROVE  Goal
  <2>1. /\ UNCHANGED <<accepted, queue, sent>>
        /\ current' \in {0, current} /\ wpc' \notin Unanswered
    BY <1>8, UnwindFlow DEF FillerFails, CleanedDispatch, CleanedTimer, CancelledRacing
  <2>2. CASE current' = current
    BY <2>1, <2>2, QuietStep
  <2>3. CASE current' = 0
    BY <1>8, <2>1, <2>3, SettleFlow DEF Service!Next
  <2> QED BY <2>1, <2>2, <2>3
<1>9. CASE FillerFails \/ CleanedDispatch \/ CleanedTimer
  BY <1>8, <1>9 DEF FillerFails, CleanedDispatch, CleanedTimer, Busy
<1>10. CASE CancelledRacing
  <2>1. CASE UNCHANGED sent
    BY <1>8, <1>10, <2>1 DEF CancelledRacing, Busy
  <2>2. CASE wpc = "filler" /\ Delivered("filler")
    BY <1>10, <2>2, UnwindFlow, NudgeFlow DEF CancelledRacing, Service!Next
  <2> QED BY <1>10, <2>1, <2>2 DEF CancelledRacing
<1>11. CASE AnswerSent
  BY <1>11, SettleFlow DEF AnswerSent, SendKind, Busy, Service!Next
<1>12. CASE FallbackFails
  BY <1>12, SettleFlow DEF FallbackFails, Busy, Service!Next
<1>13. CASE FallbackCrashes
  BY <1>13, SettleFlow DEF FallbackCrashes, Busy, Unanswered, Service!Next
<1>14. CASE CancelledSending
  BY <1>14, SettleFlow DEF CancelledSending, SendKind, Die, Busy, Unanswered, Service!Next
<1>15. CASE CancelledWaiting
  <2>1. UNCHANGED <<accepted, queue, sent>> /\ current' = 0 /\ wpc' \notin Unanswered
    BY <1>15 DEF CancelledWaiting, Die, Unanswered
  <2>2. CASE wpc \in {"created", "get"}
    <3>1. current = 0
      BY <2>2 DEF FlowInv, TypeInv, CurrentInv, Busy
    <3> QED BY <2>1, <3>1, QuietStep
  <2>3. CASE wpc = "await"
    BY <2>1, <2>3, SettleFlow DEF Busy, Service!Next
  <2> QED BY <1>15, <2>2, <2>3 DEF CancelledWaiting
<1>16. CASE UNCHANGED vars
  BY <1>16, QuietStep DEF vars
<1> QED
  BY <1>1, <1>2, <1>3, <1>4, <1>5, <1>6, <1>7, <1>9, <1>10, <1>11, <1>12, <1>13, <1>14,
     <1>15, <1>16 DEF Next, Worker

\* The actor keeps every promise of ThreadService, whatever fails or is cancelled.
THEOREM ActorImplementsService == Spec => ImplementsService
BY FlowInit, FlowStep, PTL DEF Spec, ImplementsService, Service!Spec

-----------------------------------------------------------------------------
(* No task is orphaned.                                                    *)

\* A dispatch runs only while the worker may still use or cancel it; so does a
\* timer.
TaskInv ==
    \A e \in Events :
        /\ dispatch[e] \in LiveDispatch =>
              e = current /\ wpc \in {"race", "filler", "await", "cleanupD"}
        /\ timer[e] \in LiveTimer =>
              e = current /\ wpc \in {"race", "timerWait", "cleanupD", "cleanupT"}

\* No dispatch and no timer runs.
AllStill == \A e \in Events : dispatch[e] \notin LiveDispatch /\ timer[e] \notin LiveTimer

LEMMA TakeTasks ==
    ASSUME TypeOK, AllStill, Take
    PROVE  TaskInv'
<1>1. Head(queue) \in Events
  BY HeadTailProperties DEF TypeOK, Take
<1>2. /\ current' = Head(queue) /\ wpc' = "race"
      /\ \A e \in Events : e # Head(queue) => dispatch'[e] = dispatch[e] /\ timer'[e] = timer[e]
  BY DEF Take, TypeOK
<1> QED BY <1>1, <1>2 DEF TaskInv, AllStill

LEMMA LoopTopTasks ==
    ASSUME TypeOK, AllStill, LoopTop
    PROVE  TaskInv'
BY TakeTasks DEF LoopTop, TaskInv, AllStill

LEMMA UnwindTimerTasks ==
    ASSUME TypeInv, wpc \in Busy, NEW exc, UnwindTimer(exc), UNCHANGED dispatch,
           \A e \in Events : dispatch[e] \notin LiveDispatch,
           \A e \in Events : timer[e] \in LiveTimer => e = current
    PROVE  TaskInv'
<1>1. current \in Events
  BY CurrentInEvents
<1> QED BY <1>1 DEF UnwindTimer, TaskInv, TypeInv, TypeOK

LEMMA UnwindTasks ==
    ASSUME TypeInv, TaskInv, wpc \in Busy, NEW exc, Unwind(exc)
    PROVE  TaskInv'
<1>1. current \in Events
  BY CurrentInEvents
<1>2. CASE dispatch[current] \in LiveDispatch
  <2>1. /\ wpc' = "cleanupD" /\ UNCHANGED <<current, timer>>
        /\ \A e \in Events : e # current => dispatch'[e] = dispatch[e]
    BY <1>2 DEF Unwind, TypeInv, TypeOK
  <2> QED BY <2>1 DEF TaskInv
<1>3. CASE dispatch[current] \notin LiveDispatch
  <2>1. UnwindTimer(exc) /\ UNCHANGED dispatch
    BY <1>3 DEF Unwind
  <2>2. \A e \in Events : /\ dispatch[e] \notin LiveDispatch
                          /\ timer[e] \in LiveTimer => e = current
    BY <1>3 DEF TaskInv
  <2> QED BY <2>1, <2>2, UnwindTimerTasks
<1> QED BY <1>2, <1>3

\* Past the race and its cleanup nothing runs.
LEMMA Still ==
    ASSUME TaskInv, wpc \notin {"race", "timerWait", "filler", "await", "cleanupD", "cleanupT"}
    PROVE  AllStill
BY DEF TaskInv, AllStill

LEMMA TaskStep == TypeInv /\ TaskInv /\ [Next]_vars => TaskInv'
<1> SUFFICES ASSUME TypeInv, TaskInv, [Next]_vars PROVE TaskInv'
  OBVIOUS
<1> USE Groups
<1>0. wpc \in Busy => current \in Events
  BY CurrentInEvents
<1>1. CASE Receive \/ MarkIdle \/ CancelIdle
  BY <1>1 DEF Receive, MarkIdle, CancelIdle, TaskInv
<1>2. ASSUME NEW e \in Events, Dispatch(e) \/ TimerEnds(e) PROVE TaskInv'
  <2>1. UNCHANGED <<current, wpc>>
    BY <1>2 DEF Dispatch, DispatchStarts, DispatchReturns, DispatchRaises, DispatchCancelled,
                TimerEnds
  <2>2. \A f \in Events : dispatch'[f] \in LiveDispatch => dispatch[f] \in LiveDispatch
    BY <1>2 DEF Dispatch, DispatchStarts, DispatchReturns, DispatchRaises, DispatchCancelled,
                TimerEnds, LiveDispatch, TypeInv, TypeOK
  <2>3. \A f \in Events : timer'[f] \in LiveTimer => timer[f] \in LiveTimer
    BY <1>2 DEF Dispatch, DispatchStarts, DispatchReturns, DispatchRaises, DispatchCancelled,
                TimerEnds, LiveTimer, TypeInv, TypeOK
  <2> QED BY <2>1, <2>2, <2>3 DEF TaskInv
<1>3. ASSUME NEW s \in Stoppers, Stopper(s) PROVE TaskInv'
  <2>1. UNCHANGED <<current, wpc, timer>>
    BY <1>3 DEF Stopper, DrainWaits, DrainReturns, DrainTimesOut, BeginShutdown, ShutdownReturns
  <2>2. \A f \in Events : dispatch'[f] \in LiveDispatch => dispatch[f] \in LiveDispatch
    BY <1>3 DEF Stopper, DrainWaits, DrainReturns, DrainTimesOut, BeginShutdown,
                ShutdownReturns, TypeInv, TypeOK
  <2> QED BY <2>1, <2>2 DEF TaskInv
<1>4. CASE Wake
  <2>1. AllStill
    BY <1>4, Still DEF Wake
  <2> QED BY <1>4, <2>1, TakeTasks DEF Wake, TypeInv
<1>5. CASE RaceWon
  <2>1. current \in Events /\ dispatch[current] \notin LiveDispatch
    BY <1>0, <1>5 DEF RaceWon, Busy, Resolved, AfterDispatch, LiveDispatch
  <2>2. \A e \in Events : dispatch'[e] \notin LiveDispatch
    BY <1>5, <2>1 DEF RaceWon, TaskInv
  <2>3. CASE timer[current] = "done"
    <3>1. \A e \in Events : timer'[e] \notin LiveTimer
      BY <1>5, <2>3 DEF RaceWon, TaskInv, LiveTimer
    <3> QED BY <2>2, <3>1 DEF TaskInv
  <2>4. CASE timer[current] = "armed"
    <3>1. /\ wpc' = "timerWait" /\ current' = current
          /\ \A e \in Events : e # current => timer'[e] = timer[e]
      BY <1>5, <2>1, <2>4 DEF RaceWon, TypeInv, TypeOK
    <3> QED BY <2>2, <3>1 DEF TaskInv
  <2> QED BY <1>5, <2>3, <2>4 DEF RaceWon
<1>6. CASE TimerStopped
  BY <1>6 DEF TimerStopped, TaskInv, LiveTimer
<1>7. CASE RaceTimedOut
  BY <1>7 DEF RaceTimedOut, TaskInv, LiveTimer
<1>8. CASE FillerSent
  BY <1>8 DEF FillerSent, TaskInv, Resolved, AfterDispatch, LiveDispatch
<1>9. CASE FillerFails
  BY <1>9, UnwindTasks DEF FillerFails, Busy
<1>10. CASE Awaited
  BY <1>10 DEF Awaited, TaskInv, Resolved, AfterDispatch, LiveDispatch
<1>11. CASE CleanedDispatch
  <2>1. \A e \in Events : dispatch[e] \notin LiveDispatch
    BY <1>11 DEF CleanedDispatch, TaskInv
  <2>2. \A e \in Events : timer[e] \in LiveTimer => e = current
    BY DEF TaskInv
  <2> QED BY <1>11, <2>1, <2>2, UnwindTimerTasks DEF CleanedDispatch, Busy
<1>12. CASE CleanedTimer
  BY <1>12 DEF CleanedTimer, TaskInv
<1>13. CASE AnswerSent
  <2>1. AllStill
    BY <1>13, Still DEF AnswerSent, SendKind
  <2> QED BY <1>13, <2>1, LoopTopTasks DEF AnswerSent, TypeInv
<1>14. CASE FallbackFails
  <2>1. AllStill
    BY <1>14, Still DEF FallbackFails
  <2> QED BY <1>14, <2>1, LoopTopTasks DEF FallbackFails, TypeInv
<1>15. CASE ReplyFails \/ FallbackCrashes \/ CancelledSending
  <2>1. AllStill
    BY <1>15, Still DEF ReplyFails, FallbackCrashes, CancelledSending, SendKind
  <2> QED BY <1>15, <2>1 DEF ReplyFails, FallbackCrashes, CancelledSending, AllStill, TaskInv
<1>16. CASE CancelledWaiting
  <2>1. AllStill
    BY <1>16 DEF CancelledWaiting, TaskInv, AllStill
  <2> QED BY <1>16, <2>1 DEF CancelledWaiting, AllStill, TaskInv
<1>17. CASE CancelledRacing
  BY <1>17, UnwindTasks DEF CancelledRacing, Busy
<1>18. CASE UNCHANGED vars
  BY <1>18 DEF vars, TaskInv
<1> QED
  BY <1>1, <1>2, <1>3, <1>4, <1>5, <1>6, <1>7, <1>8, <1>9, <1>10, <1>11, <1>12, <1>13,
     <1>14, <1>15, <1>16, <1>17, <1>18 DEF Next, Worker

LEMMA TaskInit == Init => TaskInv
BY DEF Init, TaskInv, LiveDispatch, LiveTimer

\* A running dispatch or timer always belongs to the event the worker is on.
THEOREM ActorNoOrphanTasks == Spec => []NoOrphanTasks
<1>1. TaskInv => NoOrphanTasks
  BY DEF TaskInv, NoOrphanTasks
<1> QED BY <1>1, TypeInit, TypeStep, TaskInit, TaskStep, PTL DEF Spec

-----------------------------------------------------------------------------
(* No event is lost in silence.                                            *)

\* The worker is only ever cancelled by a shutdown.
CancelInv == cancel \/ raising = "cancel" => stopping

LossInv == FlowInv /\ CancelInv /\ NoSilentLoss

\* What was answered stays answered, and a delivery that is no filler answers.
LEMMA AnsweredStays ==
    ASSUME FlowInv, UNCHANGED sent \/ (wpc \in Busy /\ \E k \in MessageKinds : Delivered(k)),
           NEW e, Answered(e)
    PROVE  Answered(e)'
<1>1. CASE UNCHANGED sent
  BY <1>1 DEF Answered
<1>2. ASSUME NEW k \in MessageKinds, wpc \in Busy, Delivered(k) PROVE Answered(e)'
  <2>1. current \in Events /\ sent \in Seq(Message)
    BY <1>2, CurrentInEvents DEF FlowInv, TypeInv, TypeOK
  <2>2. /\ Len(sent') = Len(sent) + 1 /\ Len(sent) \in Nat
        /\ \A i \in 1 .. Len(sent) : sent'[i] = sent[i]
    BY <1>2, <2>1, AppendProperties, LenProperties DEF Delivered, Message
  <2> QED BY <2>2 DEF Answered
<1> QED BY <1>1, <1>2

LEMMA DeliveredAnswers ==
    ASSUME FlowInv, wpc \in Busy, NEW k \in {"reply", "fallback"}, Delivered(k)
    PROVE  \E i \in 1 .. Len(sent') : sent'[i].event = current /\ sent'[i].kind # "filler"
<1>1. /\ current \in Events /\ sent \in Seq(Message)
      /\ [event |-> current, kind |-> k] \in Message
  BY CurrentInEvents DEF FlowInv, TypeInv, TypeOK, Message, MessageKinds
<1>2. /\ Len(sent') = Len(sent) + 1 /\ Len(sent) \in Nat
      /\ sent'[Len(sent) + 1] = [event |-> current, kind |-> k]
  BY <1>1, AppendProperties, LenProperties DEF Delivered
<1>3. Len(sent) + 1 \in 1 .. Len(sent')
  BY <1>2
<1> QED BY <1>2, <1>3

LEMMA CancelStep == TypeInv /\ CancelInv /\ [Next]_vars => CancelInv' /\ (stopping => stopping')
<1> SUFFICES ASSUME TypeInv, CancelInv, [Next]_vars
             PROVE  CancelInv' /\ (stopping => stopping')
  OBVIOUS
<1> USE Groups DEF CancelInv
<1>1. CASE Receive \/ MarkIdle \/ CancelIdle
  BY <1>1 DEF Receive, MarkIdle, CancelIdle
<1>2. ASSUME NEW e \in Events, Dispatch(e) \/ TimerEnds(e)
      PROVE  CancelInv' /\ (stopping => stopping')
  BY <1>2 DEF Dispatch, DispatchStarts, DispatchReturns, DispatchRaises, DispatchCancelled,
              TimerEnds
<1>3. ASSUME NEW s \in Stoppers, Stopper(s)
      PROVE  CancelInv' /\ (stopping => stopping')
  BY <1>3 DEF Stopper, DrainWaits, DrainReturns, DrainTimesOut, BeginShutdown, ShutdownReturns
<1>4. CASE FillerFails
  BY <1>4 DEF FillerFails, Unwind, UnwindTimer
<1>5. CASE CleanedDispatch
  BY <1>5 DEF CleanedDispatch, UnwindTimer
<1>6. CASE CancelledRacing
  BY <1>6 DEF CancelledRacing, Unwind, UnwindTimer
<1>7. CASE \/ Wake \/ RaceWon \/ TimerStopped \/ RaceTimedOut \/ FillerSent \/ Awaited
           \/ CleanedTimer \/ AnswerSent
  BY <1>7 DEF Wake, RaceWon, TimerStopped, RaceTimedOut, FillerSent, Awaited, CleanedTimer,
              AnswerSent
<1>8. CASE \/ ReplyFails \/ FallbackFails \/ FallbackCrashes \/ CancelledWaiting
           \/ CancelledSending
  BY <1>8 DEF ReplyFails, FallbackFails, FallbackCrashes, CancelledWaiting, CancelledSending
<1>9. CASE UNCHANGED vars
  BY <1>9 DEF vars
<1> QED BY <1>1, <1>2, <1>3, <1>4, <1>5, <1>6, <1>7, <1>8, <1>9 DEF Next, Worker

\* A step that keeps the queue, the event or the shutdown, and what was sent.
LEMMA KeptLoss ==
    ASSUME LossInv, stopping => stopping', lost \subseteq lost',
           UNCHANGED sent \/ (wpc \in Busy /\ \E k \in MessageKinds : Delivered(k)),
           stopping' \/ (Taken' = Taken /\ current' = current)
    PROVE  NoSilentLoss'
BY AnsweredStays DEF LossInv, NoSilentLoss

\* A step that ends the event, answered or lost, and may take the next one.
LEMMA EndedLoss ==
    ASSUME LossInv, stopping => stopping', lost \subseteq lost',
           UNCHANGED sent \/ (wpc \in Busy /\ \E k \in MessageKinds : Delivered(k)),
           current = 0 \/ current \in lost'
              \/ \E i \in 1 .. Len(sent') : sent'[i].event = current /\ sent'[i].kind # "filler",
           Taken' = Taken \/ (Taken' = Taken + 1 /\ current' = Taken + 1)
    PROVE  NoSilentLoss'
<1> SUFFICES ASSUME NEW e \in 1 .. Taken'
             PROVE  e = current' \/ Answered(e)' \/ e \in lost' \/ stopping'
  BY DEF NoSilentLoss
<1>1. Taken \in Int
  BY FlowTypes DEF LossInv, FlowInv
<1>2. CASE e = Taken + 1 /\ current' = Taken + 1
  BY <1>2
<1>3. CASE e \in 1 .. Taken
  <2>1. e = current \/ Answered(e) \/ e \in lost \/ stopping
    BY <1>3 DEF LossInv, NoSilentLoss
  <2>2. CASE e = current
    BY <1>3, <2>2 DEF Answered
  <2>3. CASE Answered(e)
    BY <2>3, AnsweredStays DEF LossInv
  <2> QED BY <2>1, <2>2, <2>3
<1> QED BY <1>1, <1>2, <1>3

LEMMA LossStep == LossInv /\ [Next]_vars => NoSilentLoss'
<1> SUFFICES ASSUME LossInv, [Next]_vars PROVE NoSilentLoss'
  OBVIOUS
<1> USE Groups
<1>0. stopping => stopping'
  BY CancelStep DEF LossInv, FlowInv
<1>1. CASE Receive
  <2>1. CASE queue' = Append(queue, accepted + 1) /\ accepted' = accepted + 1
    <3>1. queue \in Seq(Events) /\ accepted + 1 \in Events
      BY <1>1, FlowTypes, MaxEventsAssumption
         DEF Receive, LossInv, FlowInv, TypeInv, TypeOK, Events
    <3>2. Len(queue') = Len(queue) + 1
      BY <2>1, <3>1, AppendProperties
    <3>3. Taken' = Taken
      BY <2>1, <3>2, FlowTypes DEF LossInv, FlowInv, Taken
    <3> QED BY <1>0, <1>1, <3>3, KeptLoss DEF Receive
  <2>2. CASE UNCHANGED <<accepted, queue>>
    BY <1>0, <1>1, <2>2, KeptLoss DEF Receive, Taken
  <2> QED BY <1>1, <2>1, <2>2 DEF Receive
<1>2. CASE MarkIdle \/ CancelIdle
  BY <1>0, <1>2, KeptLoss DEF MarkIdle, CancelIdle, Taken
<1>3. ASSUME NEW e \in Events, Dispatch(e) \/ TimerEnds(e) PROVE NoSilentLoss'
  BY <1>0, <1>3, KeptLoss
     DEF Dispatch, DispatchStarts, DispatchReturns, DispatchRaises, DispatchCancelled,
         TimerEnds, Taken
<1>4. ASSUME NEW s \in Stoppers, Stopper(s) PROVE NoSilentLoss'
  BY <1>0, <1>4, KeptLoss
     DEF Stopper, DrainWaits, DrainReturns, DrainTimesOut, BeginShutdown, ShutdownReturns, Taken
<1>5. ASSUME LoopTop, accepted' = accepted, wpc \in Busy,
             UNCHANGED sent \/ \E k \in {"reply", "fallback"} : Delivered(k)
      PROVE  Taken' = Taken \/ (Taken' = Taken + 1 /\ current' = Taken + 1)
  <2>1. Service!Settle
    BY <1>5, SettleFlow DEF LossInv
  <2> QED BY <2>1 DEF Service!Settle, Service!TakeNext, Service!Rest
<1>6. CASE Wake
  <2>1. current = 0 /\ Take /\ accepted' = accepted /\ UNCHANGED <<sent, lost>>
    BY <1>6 DEF Wake, LossInv, FlowInv, TypeInv, CurrentInv, Busy
  <2>2. \A i \in 1 .. Len(sent') : sent'[i].event \in Nat /\ sent'[i].event <= Taken
    BY <2>1, FlowTypes DEF LossInv, FlowInv, SentInv
  <2>3. Taken' = Taken + 1 /\ current' = Taken + 1
    BY <2>1, <2>2, TakeFlow DEF LossInv, Service!TakeNext
  <2> QED BY <1>0, <2>1, <2>3, EndedLoss
<1>7. CASE RaceWon \/ TimerStopped \/ RaceTimedOut \/ Awaited \/ ReplyFails
  BY <1>0, <1>7, KeptLoss DEF RaceWon, TimerStopped, RaceTimedOut, Awaited, ReplyFails, Taken
<1>8. CASE FillerSent
  BY <1>0, <1>8, KeptLoss DEF FillerSent, Taken, Busy, MessageKinds
<1>9. CASE FillerFails
  BY <1>0, <1>9, KeptLoss DEF FillerFails, Unwind, UnwindTimer, Reraise, Taken
<1>10. CASE CleanedDispatch
  BY <1>0, <1>10, KeptLoss DEF CleanedDispatch, UnwindTimer, Reraise, Taken, LossInv, CancelInv
<1>11. CASE CleanedTimer
  BY <1>0, <1>11, KeptLoss DEF CleanedTimer, Reraise, Taken, LossInv, CancelInv
<1>12. CASE AnswerSent
  <2>1. wpc \in Busy /\ SendKind[wpc] \in {"reply", "fallback"} /\ Delivered(SendKind[wpc])
        /\ LoopTop /\ accepted' = accepted /\ lost' = lost
    BY <1>12 DEF AnswerSent, SendKind, Busy
  <2>2. Taken' = Taken \/ (Taken' = Taken + 1 /\ current' = Taken + 1)
    BY <1>5, <2>1
  <2>3. \E i \in 1 .. Len(sent') : sent'[i].event = current /\ sent'[i].kind # "filler"
    BY <2>1, DeliveredAnswers DEF LossInv
  <2> QED BY <1>0, <2>1, <2>2, <2>3, EndedLoss DEF MessageKinds
<1>13. CASE FallbackFails
  <2>1. wpc \in Busy /\ LoopTop /\ accepted' = accepted /\ UNCHANGED sent
        /\ lost' = lost \cup {current}
    BY <1>13 DEF FallbackFails, Busy
  <2> QED BY <1>0, <1>5, <2>1, EndedLoss
<1>14. CASE FallbackCrashes
  BY <1>0, <1>14, EndedLoss DEF FallbackCrashes, Taken
<1>15. CASE CancelledWaiting
  BY <1>0, <1>15, KeptLoss DEF CancelledWaiting, LossInv, CancelInv
<1>16. CASE CancelledSending
  BY <1>0, <1>16, KeptLoss DEF CancelledSending, LossInv, CancelInv, SendKind, Busy, MessageKinds
<1>17. CASE CancelledRacing
  BY <1>0, <1>17, KeptLoss DEF CancelledRacing, LossInv, CancelInv, Busy, MessageKinds
<1>18. CASE UNCHANGED vars
  BY <1>18, <1>0, KeptLoss DEF vars, Taken
<1> QED
  BY <1>1, <1>2, <1>3, <1>4, <1>6, <1>7, <1>8, <1>9, <1>10, <1>11, <1>12, <1>13, <1>14,
     <1>15, <1>16, <1>17, <1>18 DEF Next, Worker

LEMMA LossInit == Init => CancelInv /\ NoSilentLoss
BY DEF Init, CancelInv, NoSilentLoss, Taken

\* An event that left the queue is being served, answered, known to be lost, or cut
\* short by a shutdown.
THEOREM ActorNoSilentLoss == Spec => []NoSilentLoss
<1>1. Init => LossInv
  BY FlowInit, LossInit DEF LossInv
<1>2. LossInv /\ [Next]_vars => LossInv'
  BY FlowStep, CancelStep, LossStep DEF LossInv, FlowInv
<1>3. LossInv => NoSilentLoss
  BY DEF LossInv
<1> QED BY <1>1, <1>2, <1>3, PTL DEF Spec

-----------------------------------------------------------------------------
(* The history is a run of whole exchanges.                                *)

\* The history is well formed, about events already taken, and a dispatch that
\* has not returned yet is of an event later than all of it.
HistInv ==
    /\ HistoryWellFormed
    /\ \A i \in 1 .. Len(history) : history[i].event <= Taken
    /\ \A e \in Events : dispatch[e] \in {"new", "call"} =>
          \A i \in 1 .. Len(history) : history[i].event < e

HistFlow == FlowInv /\ TaskInv /\ HistInv

LEMMA HistTypes ==
    ASSUME TypeInv
    PROVE  /\ history \in Seq(Turn) /\ Len(history) \in Nat /\ Taken \in Int
           /\ \A i \in 1 .. Len(history) :
                 history[i].event \in Events /\ history[i].role \in {"user", "assistant"}
<1>1. \A i \in 1 .. Len(history) : history[i] \in Turn
  BY ElementOfSeq DEF TypeInv, TypeOK
<1> QED BY <1>1, FlowTypes, LenProperties DEF TypeInv, TypeOK, Turn

\* Compaction keeps a suffix.
LEMMA CompactSuffix ==
    ASSUME TypeInv, history' = CompactHistory(history)
    PROVE  \E k \in Nat : /\ Len(history') = Len(history) - k
                          /\ history # <<>> => k < Len(history)
                          /\ Len(history') \in Nat
                          /\ \A i \in 1 .. Len(history') : history'[i] = history[k + i]
<1>1. history \in Seq(Turn) /\ Len(history) \in Nat
  BY HistTypes
<1>2. CASE Len(history) <= 1
  <2>1. history' = history
    BY <1>2 DEF CompactHistory
  <2>2. history # <<>> => 0 < Len(history)
    BY <1>1, EmptySeq
  <2> QED BY <1>1, <2>1, <2>2
<1>3. CASE Len(history) > 1
  <2> DEFINE k == Len(history) \div 2
  <2>1. k \in Nat /\ k < Len(history)
    BY <1>1, <1>3
  <2>2. history' = SubSeq(history, k + 1, Len(history))
    BY <1>1, <1>3 DEF CompactHistory
  <2> HIDE DEF k
  <2>3. \A i \in k + 1 .. Len(history) : history[i] \in Turn
    BY <1>1, <2>1, ElementOfSeq
  <2>4. /\ Len(history') = Len(history) - k
        /\ \A i \in 1 .. Len(history) - k : history'[i] = history[k + i]
    BY <1>1, <2>1, <2>2, <2>3, SubSeqProperties
  <2> QED BY <1>1, <2>1, <2>4
<1> QED BY <1>1, <1>2, <1>3

\* A suffix of a well-formed history is one.
LEMMA CompactKeeps ==
    ASSUME TypeInv, HistInv, history' = CompactHistory(history), Taken' = Taken,
           \A e \in Events : dispatch'[e] \in {"new", "call"} => dispatch[e] \in {"new", "call"}
    PROVE  HistInv'
<1>1. PICK k \in Nat : /\ Len(history') = Len(history) - k
                       /\ history # <<>> => k < Len(history)
                       /\ Len(history') \in Nat
                       /\ \A i \in 1 .. Len(history') : history'[i] = history[k + i]
  BY CompactSuffix
<1>2. Len(history) \in Nat /\ history \in Seq(Turn)
  BY HistTypes
<1>3. \A i \in 1 .. Len(history') : k + i \in 1 .. Len(history)
  BY <1>1, <1>2
<1>4. HistoryWellFormed'
  <2>1. history' # <<>> => history'[Len(history')].role = "assistant"
    <3>1. ASSUME history' # <<>> PROVE history'[Len(history')] = history[Len(history)]
                                       /\ history # <<>>
      <4>1. history # <<>>
        BY <3>1 DEF CompactHistory
      <4>2. Len(history') \in 1 .. Len(history') /\ k + Len(history') = Len(history)
        BY <1>1, <1>2, <4>1
      <4> QED BY <1>1, <4>1, <4>2
    <3> QED BY <3>1 DEF HistInv, HistoryWellFormed
  <2>2. ASSUME NEW i \in 1 .. Len(history') - 1
        PROVE  IF history'[i].role = "user"
               THEN history'[i + 1] = [role |-> "assistant", event |-> history'[i].event]
               ELSE /\ history'[i + 1].role = "user"
                    /\ history'[i + 1].event > history'[i].event
    <3>1. /\ i \in 1 .. Len(history') /\ i + 1 \in 1 .. Len(history')
          /\ k + i \in 1 .. Len(history) - 1 /\ k + (i + 1) = (k + i) + 1
      BY <1>1, <1>2
    <3>2. history'[i] = history[k + i] /\ history'[i + 1] = history[(k + i) + 1]
      BY <1>1, <3>1
    <3> QED BY <3>1, <3>2 DEF HistInv, HistoryWellFormed
  <2> QED BY <2>1, <2>2 DEF HistoryWellFormed
<1> QED BY <1>1, <1>3, <1>4 DEF HistInv

\* The exchange of the only dispatch that runs is appended whole.
LEMMA ReturnKeeps ==
    ASSUME HistFlow, NEW e \in Events, DispatchReturns(e)
    PROVE  HistInv'
<1> DEFINE user == [role |-> "user", event |-> e]
           assistant == [role |-> "assistant", event |-> e]
           n == Len(history)
<1>1. /\ history \in Seq(Turn) /\ n \in Nat
      /\ \A i \in 1 .. n : history[i].event \in Events
                             /\ history[i].role \in {"user", "assistant"}
  BY HistTypes DEF HistFlow, FlowInv
<1>2. e = current /\ e = Taken /\ e # 0
  BY DEF DispatchReturns, HistFlow, TaskInv, FlowInv, FIFOInv, LiveDispatch, Events
<1>3. Taken' = Taken
  BY Groups DEF DispatchReturns, Taken
<1>4. /\ Len(history') = n + 2
      /\ \A i \in 1 .. n : history'[i] = history[i]
      /\ history'[n + 1] = user /\ history'[n + 2] = assistant
  <2>1. <<user, assistant>> \in Seq(Turn) /\ history' = history \o <<user, assistant>>
    BY DEF DispatchReturns, Turn
  <2>2. /\ Len(history') = n + 2
        /\ \A i \in 1 .. n + 2 : history'[i] =
              IF i <= n THEN history[i] ELSE <<user, assistant>>[i - n]
    BY <1>1, <2>1, ConcatProperties
  <2>3. /\ \A i \in 1 .. n : i \in 1 .. n + 2 /\ i <= n
        /\ n + 1 \in 1 .. n + 2 /\ n + 2 \in 1 .. n + 2 /\ ~ (n + 1 <= n) /\ ~ (n + 2 <= n)
        /\ (n + 1) - n = 1 /\ (n + 2) - n = 2
    BY <1>1
  <2> QED BY <2>2, <2>3
<1>5. \A i \in 1 .. n : history[i].event < e
  BY DEF DispatchReturns, HistFlow, HistInv
<1>6. user.role = "user" /\ user.event = e /\ assistant.event = e
      /\ assistant.role = "assistant" /\ assistant = [role |-> "assistant", event |-> user.event]
  OBVIOUS
<1> HIDE DEF user, assistant, n
<1>7. \A i \in 1 .. Len(history') : i \in 1 .. n \/ i = n + 1 \/ i = n + 2
  BY <1>1, <1>4
<1>8. HistoryWellFormed'
  <2>1. history'[Len(history')].role = "assistant"
    BY <1>4, <1>6
  <2>2. ASSUME NEW i \in 1 .. Len(history') - 1
        PROVE  IF history'[i].role = "user"
               THEN history'[i + 1] = [role |-> "assistant", event |-> history'[i].event]
               ELSE /\ history'[i + 1].role = "user"
                    /\ history'[i + 1].event > history'[i].event
    <3>1. i \in 1 .. n - 1 \/ (i = n /\ n > 0) \/ i = n + 1
      BY <1>1, <1>4
    <3>2. CASE i \in 1 .. n - 1
      <4>1. i \in 1 .. n /\ i + 1 \in 1 .. n
        BY <1>1, <3>2
      <4>2. history'[i] = history[i] /\ history'[i + 1] = history[i + 1]
        BY <1>4, <4>1
      <4> QED BY <3>2, <4>2 DEF HistFlow, HistInv, HistoryWellFormed, n
    <3>3. CASE i = n /\ n > 0
      <4>1. history # <<>> /\ n \in 1 .. n
        BY <1>1, <3>3 DEF n
      <4>2. history[n].role = "assistant"
        BY <4>1 DEF HistFlow, HistInv, HistoryWellFormed, n
      <4>3. history'[i] = history[n] /\ history'[i + 1] = user
        BY <1>4, <3>3, <4>1
      <4>4. user.event > history[n].event
        BY <1>1, <1>5, <1>6, <4>1 DEF Events
      <4> QED BY <1>6, <4>2, <4>3, <4>4
    <3>4. CASE i = n + 1
      <4>1. history'[i] = user /\ history'[i + 1] = assistant
        <5>1. i + 1 = n + 2
          BY <1>1, <3>4
        <5> QED BY <1>4, <3>4, <5>1
      <4> QED BY <1>6, <4>1
    <3> QED BY <3>1, <3>2, <3>3, <3>4
  <2> QED BY <2>1, <2>2 DEF HistoryWellFormed
<1>9. \A i \in 1 .. Len(history') : history'[i].event <= Taken'
  <2>1. \A i \in 1 .. n : history'[i].event <= Taken
    BY <1>4 DEF HistFlow, HistInv, n
  <2>2. e <= Taken
    BY <1>2 DEF Events
  <2> QED BY <1>3, <1>4, <1>6, <1>7, <2>1, <2>2
<1>10. \A f \in Events : dispatch'[f] \notin {"new", "call"}
  <2>1. \A f \in Events : f # e => dispatch[f] \notin LiveDispatch
    BY <1>2 DEF HistFlow, TaskInv
  <2>2. dispatch' = [dispatch EXCEPT ![e] = "ok"]
    BY DEF DispatchReturns
  <2> QED BY <2>1, <2>2 DEF HistFlow, FlowInv, TypeInv, TypeOK, LiveDispatch
<1> QED BY <1>8, <1>9, <1>10 DEF HistInv

LEMMA HistQuiet ==
    ASSUME HistFlow, history' = history, Taken' \in Int, Taken <= Taken',
           \A e \in Events : dispatch'[e] \in {"new", "call"} => dispatch[e] \in {"new", "call"}
    PROVE  HistInv'
<1>1. \A i \in 1 .. Len(history) : history[i].event \in Nat
  BY HistTypes DEF HistFlow, FlowInv, Events
<1>2. \A i \in 1 .. Len(history) : history[i].event <= Taken'
  BY <1>1, HistTypes DEF HistFlow, FlowInv, HistInv
<1> QED BY <1>2 DEF HistFlow, HistInv, HistoryWellFormed

\* The event that is taken is later than all of the history.
LEMMA HistTake ==
    ASSUME HistFlow, Take, accepted' = accepted, history' = history
    PROVE  HistInv'
<1>1. queue \in Seq(Events) /\ queue # <<>> /\ Head(queue) \in Events
      /\ Len(Tail(queue)) = Len(queue) - 1 /\ Head(queue) = queue[1] /\ Len(queue) \in Nat \ {0}
  BY HeadTailProperties, EmptySeq, LenProperties DEF HistFlow, FlowInv, TypeInv, TypeOK, Take
<1>2. Taken \in Int /\ Taken' = Taken + 1 /\ Head(queue) = Taken + 1
  BY <1>1, FlowTypes DEF Take, Taken, HistFlow, FlowInv, FIFOInv
<1>3. \A i \in 1 .. Len(history) : history[i].event \in Nat /\ history[i].event <= Taken
  BY HistTypes DEF HistFlow, FlowInv, HistInv, Events
<1>4. \A i \in 1 .. Len(history) : history[i].event <= Taken' /\ history[i].event < Head(queue)
  BY <1>2, <1>3
<1>5. \A e \in Events : e # Head(queue) => dispatch'[e] = dispatch[e]
  BY <1>1 DEF Take, HistFlow, FlowInv, TypeInv, TypeOK
<1> QED BY <1>4, <1>5 DEF HistFlow, HistInv, HistoryWellFormed

LEMMA HistStep == HistFlow /\ [Next]_vars => HistInv'
<1> SUFFICES ASSUME HistFlow, [Next]_vars PROVE HistInv'
  OBVIOUS
<1> USE Groups
<1>0. Taken \in Int /\ TypeInv /\ dispatch \in [Events -> DispatchStates]
  BY FlowTypes DEF HistFlow, FlowInv, TypeInv, TypeOK
<1>1. CASE Receive
  <2>1. CASE queue' = Append(queue, accepted + 1) /\ accepted' = accepted + 1
    <3>1. queue \in Seq(Events) /\ accepted + 1 \in Events
      BY <1>0, <1>1, FlowTypes, MaxEventsAssumption DEF Receive, TypeInv, TypeOK, Events
    <3>2. Len(queue') = Len(queue) + 1
      BY <2>1, <3>1, AppendProperties
    <3>3. Taken' = Taken
      BY <1>0, <2>1, <3>2, FlowTypes DEF Taken
    <3> QED BY <1>0, <1>1, <3>3, HistQuiet DEF Receive
  <2>2. CASE UNCHANGED <<accepted, queue>>
    BY <1>0, <1>1, <2>2, HistQuiet DEF Receive, Taken
  <2> QED BY <1>1, <2>1, <2>2 DEF Receive
<1>2. CASE MarkIdle \/ CancelIdle
  BY <1>0, <1>2, HistQuiet DEF MarkIdle, CancelIdle, Taken
<1>3. ASSUME NEW e \in Events, Dispatch(e) PROVE HistInv'
  <2>1. CASE DispatchStarts(e)
    <3>1. /\ Taken' = Taken
          /\ \A f \in Events :
                dispatch'[f] \in {"new", "call"} => dispatch[f] \in {"new", "call"}
      BY <1>0, <2>1 DEF DispatchStarts, Taken
    <3>2. CASE history' = history
      BY <1>0, <3>1, <3>2, HistQuiet
    <3>3. CASE history' = CompactHistory(history)
      BY <1>0, <3>1, <3>3, CompactKeeps DEF HistFlow
    <3> QED BY <2>1, <3>2, <3>3 DEF DispatchStarts
  <2>2. CASE DispatchReturns(e)
    BY <2>2, ReturnKeeps
  <2>3. CASE DispatchRaises(e)
    <3>1. history' = history /\ Taken' = Taken
          /\ \E exc \in {"unavailable", "error"} : dispatch' = [dispatch EXCEPT ![e] = exc]
      BY <2>3 DEF DispatchRaises, Taken
    <3> QED BY <1>0, <3>1, HistQuiet
  <2>4. CASE DispatchCancelled(e)
    <3>1. history' = history /\ Taken' = Taken
          /\ dispatch' = [dispatch EXCEPT ![e] = "cancelled"]
      BY <2>4 DEF DispatchCancelled, Taken
    <3> QED BY <1>0, <3>1, HistQuiet
  <2> QED BY <1>3, <2>1, <2>2, <2>3, <2>4 DEF Dispatch
<1>4. ASSUME NEW e \in Events, TimerEnds(e) PROVE HistInv'
  BY <1>0, <1>4, HistQuiet DEF TimerEnds, Taken
<1>5. ASSUME NEW s \in Stoppers, Stopper(s) PROVE HistInv'
  <2>1. history' = history /\ Taken' = Taken
    BY <1>5 DEF Stopper, DrainWaits, DrainReturns, DrainTimesOut, BeginShutdown,
                ShutdownReturns, Taken
  <2>2. dispatch' = dispatch \/ dispatch' = [dispatch EXCEPT ![current] = "cancel"]
    BY <1>5 DEF Stopper, DrainWaits, DrainReturns, DrainTimesOut, BeginShutdown,
                ShutdownReturns
  <2> QED BY <1>0, <2>1, <2>2, HistQuiet
<1>6. ASSUME LoopTop, accepted' = accepted, history' = history PROVE HistInv'
  <2>1. CASE Take
    BY <1>6, <2>1, HistTake
  <2>2. CASE UNCHANGED <<queue, dispatch>>
    BY <1>0, <1>6, <2>2, HistQuiet DEF Taken
  <2> QED BY <1>6, <2>1, <2>2 DEF LoopTop
<1>7. CASE Wake
  BY <1>7, HistTake DEF Wake
<1>8. CASE AnswerSent \/ FallbackFails
  BY <1>6, <1>8 DEF AnswerSent, FallbackFails
<1>9. CASE \/ RaceWon \/ TimerStopped \/ RaceTimedOut \/ FillerSent \/ Awaited \/ CleanedTimer
           \/ ReplyFails \/ FallbackCrashes \/ CancelledWaiting \/ CancelledSending
  BY <1>0, <1>9, HistQuiet
     DEF RaceWon, TimerStopped, RaceTimedOut, FillerSent, Awaited, CleanedTimer, ReplyFails,
         FallbackCrashes, CancelledWaiting, CancelledSending, Taken
<1>10. CASE FillerFails \/ CancelledRacing \/ CleanedDispatch
  <2>1. history' = history /\ Taken' = Taken
    BY <1>10 DEF FillerFails, CancelledRacing, CleanedDispatch, Taken
  <2>2. dispatch' = dispatch \/ dispatch' = [dispatch EXCEPT ![current] = "cancel"]
    BY <1>10 DEF FillerFails, CancelledRacing, CleanedDispatch, Unwind
  <2> QED BY <1>0, <2>1, <2>2, HistQuiet
<1>11. CASE UNCHANGED vars
  BY <1>0, <1>11, HistQuiet DEF vars, Taken
<1> QED
  BY <1>1, <1>2, <1>3, <1>4, <1>5, <1>7, <1>8, <1>9, <1>10, <1>11 DEF Next, Worker

LEMMA HistInit == Init => HistInv
BY DEF Init, HistInv, HistoryWellFormed

\* The conversation given to cortex is always a run of whole exchanges in order.
THEOREM ActorHistoryWellFormed == Spec => []HistoryWellFormed
<1>1. Init => HistFlow
  BY FlowInit, TaskInit, HistInit DEF HistFlow
<1>2. HistFlow /\ [Next]_vars => HistFlow'
  BY FlowStep, TaskStep, HistStep DEF HistFlow, FlowInv
<1>3. HistFlow => HistoryWellFormed
  BY DEF HistFlow, HistInv
<1> QED BY <1>1, <1>2, <1>3, PTL DEF Spec
-----------------------------------------------------------------------------
(* The refinement of ThreadWorker.                                         *)

\* An exception is held exactly during the cleanup it started.
RaisingInv == raising # "none" <=> wpc \in {"cleanupD", "cleanupT"}

WorkerInv == TypeInv /\ TaskInv /\ RaisingInv

\* What the worker does while it has an event that is past its call.
LEMMA PastCall ==
    ASSUME WorkerInv, wpc \in Busy, wpc \notin {"race", "filler", "await", "cleanupD"}
    PROVE  Stage = "send"
BY CurrentInEvents DEF WorkerInv, TaskInv, Stage, Busy, WorkerDone, DeadWorker

\* A busy worker waits for cortex exactly while its dispatch runs.
LEMMA BusyStage ==
    ASSUME wpc \in Busy
    PROVE  Stage = IF dispatch[current] \in LiveDispatch THEN "busy" ELSE "send"
BY DEF Stage, Busy, WorkerDone, DeadWorker

LEMMA BusyStageNext ==
    ASSUME wpc' \in Busy
    PROVE  Stage' = IF dispatch'[current'] \in LiveDispatch THEN "busy" ELSE "send"
BY DEF Stage, Busy, WorkerDone, DeadWorker

\* A step that changes neither the event nor the dispatch of a busy worker.
LEMMA SameStage ==
    ASSUME wpc \in Busy, wpc' \in Busy, current' = current, dispatch' = dispatch
    PROVE  Stage' = Stage
BY BusyStage, BusyStageNext

LEMMA DeadStage ==
    /\ wpc \in DeadWorker => Stage = "dead"
    /\ wpc' \in DeadWorker => Stage' = "dead"
    /\ wpc \in {"created", "get"} => Stage = "get"
    /\ wpc' \in {"created", "get"} => Stage' = "get"
BY DEF Stage, WorkerDone, DeadWorker

LEMMA TakeServes ==
    ASSUME WorkerInv, Take
    PROVE  Thread!Serve
<1>1. queue \in Seq(Events) /\ queue # <<>> /\ queue' = Tail(queue)
  BY DEF WorkerInv, TypeInv, TypeOK, Take
<1>2. Head(queue) \in Events /\ Len(queue) \in Nat \ {0} /\ Len(queue') = Len(queue) - 1
  BY <1>1, HeadTailProperties, LenProperties, EmptySeq
<1>3. dispatch'[current'] = "new" /\ wpc' \in Busy
  BY <1>2 DEF Take, WorkerInv, TypeInv, TypeOK, Busy
<1>4. Stage' = "busy"
  BY <1>3, BusyStageNext DEF LiveDispatch
<1> QED BY <1>2, <1>4 DEF Take, Thread!Serve

LEMMA LoopTopFinishes ==
    ASSUME WorkerInv, LoopTop, Stage = "send", ~ cancel, raising = "none",
           UNCHANGED <<cancel, raising>>
    PROVE  Thread!Finish
<1>1. CASE Take
  BY <1>1, TakeServes DEF Thread!Finish
<1>2. CASE queue = <<>> /\ idle' = TRUE /\ wpc' = "get" /\ UNCHANGED queue
  BY <1>2, DeadStage DEF Thread!Finish
<1> QED BY <1>1, <1>2 DEF LoopTop

\* The cleanup goes on, or ends with the exception that started it.
LEMMA UnwindTimerWorks ==
    ASSUME WorkerInv, wpc \in Busy, NEW exc \in {"cancel", "error"}, UnwindTimer(exc),
           dispatch[current] \notin LiveDispatch, UNCHANGED <<dispatch, queue, idle>>,
           cancel' = FALSE, cancel \/ raising = "cancel" <=> exc = "cancel" \/ cancel
    PROVE  [Thread!Next]_(Thread!vars) /\ RaisingInv'
<1>1. Stage = "send"
  BY BusyStage
<1>2. CASE timer[current] \in LiveTimer
  <2>1. raising' = exc /\ wpc' = "cleanupT" /\ current' = current
    BY <1>2 DEF UnwindTimer
  <2>2. Stage' = "send"
    BY <1>1, <2>1, SameStage DEF Busy
  <2>3. RaisingInv'
    BY <2>1 DEF RaisingInv
  <2> QED BY <1>1, <2>1, <2>2, <2>3 DEF Thread!Next, Thread!Ignore, Thread!vars
<1>3. CASE timer[current] \notin LiveTimer
  <2>1. raising' = "none" /\ Reraise(exc)
    BY <1>3 DEF UnwindTimer
  <2>2. CASE exc = "cancel" /\ Die
    <3>1. Stage' = "dead" /\ RaisingInv'
      BY <2>1, <2>2, DeadStage DEF Die, DeadWorker, RaisingInv
    <3> QED BY <2>1, <2>2, <3>1 DEF Thread!Next, Thread!EndCancelled
  <2>3. CASE exc = "error" /\ wpc' = "fallback" /\ UNCHANGED current
    <3>1. Stage' = "send" /\ RaisingInv'
      BY <1>1, <2>1, <2>3, SameStage DEF Busy, RaisingInv
    <3> QED BY <1>1, <2>1, <2>3, <3>1 DEF Thread!Next, Thread!Ignore, Thread!vars
  <2> QED BY <2>1, <2>2, <2>3 DEF Reraise
<1> QED BY <1>2, <1>3

\* The exception leaves the race: its cleanup begins.
LEMMA UnwindWorks ==
    ASSUME WorkerInv, wpc \in Busy, NEW exc \in {"cancel", "error"}, Unwind(exc),
           UNCHANGED <<queue, idle>>, cancel' = FALSE, raising = "none",
           cancel <=> exc = "cancel"
    PROVE  [Thread!Next]_(Thread!vars) /\ RaisingInv'
<1>1. CASE dispatch[current] \in LiveDispatch
  <2>1. /\ raising' = exc /\ wpc' = "cleanupD" /\ current' = current
        /\ dispatch'[current] = "cancel"
    BY <1>1, CurrentInEvents DEF Unwind, WorkerInv, TypeInv, TypeOK
  <2>2. Stage = "busy" /\ Stage' = "busy"
    BY <1>1, <2>1, BusyStage, BusyStageNext DEF Busy, LiveDispatch
  <2>3. RaisingInv'
    BY <2>1 DEF RaisingInv
  <2> QED BY <2>1, <2>2, <2>3 DEF Thread!vars, WorkerInv, TypeInv, TypeOK
<1>2. CASE dispatch[current] \notin LiveDispatch
  BY <1>2, UnwindTimerWorks DEF Unwind
<1> QED BY <1>1, <1>2

\* A cancellation that ends the worker at once.
LEMMA DieWorks ==
    ASSUME cancel, cancel' = FALSE, raising = "none", raising' = "none", Die,
           UNCHANGED <<queue, idle>>
    PROVE  Thread!Next /\ RaisingInv'
BY DeadStage DEF Die, DeadWorker, RaisingInv, Thread!Next, Thread!EndCancelled

\* A step of a busy worker that leaves its queue, marker, event and dispatch alone.
LEMMA BusyWorks ==
    ASSUME wpc \in Busy, wpc' \in Busy \ {"cleanupD", "cleanupT"}, raising = "none",
           UNCHANGED <<queue, idle, current, dispatch, cancel, raising>>
    PROVE  [Thread!Next]_(Thread!vars) /\ RaisingInv'
BY SameStage DEF RaisingInv, Thread!vars

\* Every step of the actor is a step of the worker or leaves its variables alone.
LEMMA WorkerStep == WorkerInv /\ [Next]_vars => WorkerInv' /\ [Thread!Next]_(Thread!vars)
<1> SUFFICES ASSUME WorkerInv, [Next]_vars
             PROVE  RaisingInv' /\ [Thread!Next]_(Thread!vars)
  BY TypeStep, TaskStep DEF WorkerInv
<1> USE Groups
<1> DEFINE Goal == RaisingInv' /\ [Thread!Next]_(Thread!vars)
<1>0. /\ raising \in {"none", "cancel", "error"} /\ cancel \in BOOLEAN /\ idle \in BOOLEAN
      /\ wpc \notin {"cleanupD", "cleanupT"} => raising = "none"
  BY DEF WorkerInv, TypeInv, TypeOK, RaisingInv
<1>1. CASE Receive
  <2>1. Stage' = Stage /\ RaisingInv' /\ idle' = FALSE /\ UNCHANGED <<cancel, raising>>
    BY <1>1 DEF Receive, Stage, WorkerDone, RaisingInv, WorkerInv
  <2>2. \/ Len(queue) < QueueDepth /\ Len(queue') = Len(queue) + 1
        \/ Len(queue) >= QueueDepth /\ UNCHANGED queue
    <3>1. queue \in Seq(Events) /\ (accepted < MaxEvents => accepted + 1 \in Events)
      BY MaxEventsAssumption DEF WorkerInv, TypeInv, TypeOK, Events
    <3> QED BY <1>1, <3>1, AppendProperties DEF Receive
  <2> QED BY <2>1, <2>2 DEF Thread!Next, Thread!Offer
<1>2. CASE MarkIdle \/ CancelIdle
  <2>1. /\ UNCHANGED <<queue, wpc, dispatch, current, cancel, raising>>
        /\ idle' \in BOOLEAN
    BY <1>2 DEF MarkIdle, CancelIdle
  <2>2. Stage' = Stage /\ RaisingInv'
    BY <2>1 DEF Stage, WorkerDone, RaisingInv, WorkerInv
  <2>3. Thread!Mark
    BY <2>1, <2>2 DEF Thread!Mark
  <2> QED BY <2>2, <2>3 DEF Thread!Next
<1>3. ASSUME NEW e \in Events, Dispatch(e) PROVE Goal
  <2>1. UNCHANGED <<queue, idle, wpc, current, cancel, raising>>
    BY <1>3 DEF Dispatch, DispatchStarts, DispatchReturns, DispatchRaises, DispatchCancelled
  <2>2. \A f \in Events : dispatch'[f] \in LiveDispatch => dispatch[f] \in LiveDispatch
    BY <1>3 DEF Dispatch, DispatchStarts, DispatchReturns, DispatchRaises, DispatchCancelled,
                LiveDispatch, TypeInv, TypeOK, WorkerInv
  <2>3. Stage' = Stage \/ (Stage = "busy" /\ Stage' = "send")
    <3>1. CASE wpc \in Busy
      BY <2>1, <2>2, <3>1, CurrentInEvents, BusyStage, BusyStageNext DEF WorkerInv
    <3>2. CASE wpc \notin Busy
      BY <2>1, <3>2, DeadStage DEF WorkerInv, TypeInv, TypeOK, WorkerStates, Busy
    <3> QED BY <3>1, <3>2
  <2> QED BY <2>1, <2>3 DEF RaisingInv, WorkerInv, Thread!Next, Thread!CallEnds, Thread!vars
<1>4. ASSUME NEW e \in Events, TimerEnds(e) PROVE Goal
  BY <1>4 DEF TimerEnds, Stage, WorkerDone, RaisingInv, WorkerInv, Thread!vars
<1>5. ASSUME NEW s \in Stoppers, Stopper(s) PROVE Goal
  <2>1. CASE DrainWaits(s) \/ ShutdownReturns(s)
    BY <2>1 DEF DrainWaits, ShutdownReturns, Stage, WorkerDone, RaisingInv, WorkerInv,
                Thread!vars
  <2>2. CASE BeginShutdown(s)
    <3>1. UNCHANGED <<queue, idle, wpc, raising, current>>
      BY <2>2 DEF BeginShutdown
    <3>2. CASE cancel' = TRUE /\ ~ WorkerDone
                 /\ dispatch' = IF wpc = "await" /\ dispatch[current] \in LiveDispatch
                                THEN [dispatch EXCEPT ![current] = "cancel"] ELSE dispatch
      <4>1. dispatch'[current] \in LiveDispatch <=> dispatch[current] \in LiveDispatch
        BY <3>2 DEF LiveDispatch, WorkerInv, TypeInv, TypeOK
      <4>2. Stage' = Stage /\ Stage # "dead"
        BY <3>1, <3>2, <4>1 DEF Stage, WorkerDone
      <4> QED BY <3>1, <3>2, <4>2 DEF RaisingInv, WorkerInv, Thread!Next, Thread!Cancel
    <3>3. CASE UNCHANGED <<cancel, dispatch>>
      BY <3>1, <3>3 DEF Stage, WorkerDone, RaisingInv, WorkerInv, Thread!vars
    <3> QED BY <2>2, <3>2, <3>3 DEF BeginShutdown
  <2> QED BY <1>5, <2>1, <2>2 DEF Stopper, DrainReturns, DrainTimesOut
<1>6. CASE Wake
  <2>1. Stage = "get" /\ Thread!Serve /\ wpc' = "race"
    BY <1>6, TakeServes, DeadStage DEF Wake, Take
  <2> QED BY <1>0, <1>6, <2>1 DEF Wake, RaisingInv, Thread!Next, Thread!Take
<1>7. CASE RaceWon \/ RaceTimedOut \/ FillerSent \/ Awaited \/ ReplyFails
  <2>1. /\ wpc \in Busy /\ wpc' \in Busy \ {"cleanupD", "cleanupT"} /\ raising = "none"
        /\ UNCHANGED <<queue, idle, current, dispatch, cancel, raising>>
    BY <1>0, <1>7, AfterDispatchType
       DEF RaceWon, RaceTimedOut, FillerSent, Awaited, ReplyFails, Busy
  <2> QED BY <2>1, BusyWorks
<1>8. CASE TimerStopped
  <2>1. /\ wpc \in Busy /\ wpc' \in Busy \ {"cleanupD", "cleanupT"} /\ raising = "none"
        /\ UNCHANGED <<queue, idle, current, dispatch, raising>> /\ cancel' = FALSE
    BY <1>0, <1>8, AfterDispatchType
       DEF TimerStopped, Busy, WorkerInv, TypeInv, CurrentInv
  <2>2. Stage = "send" /\ Stage' = "send"
    BY <1>8, <2>1, SameStage, PastCall DEF TimerStopped
  <2> QED BY <1>0, <2>1, <2>2 DEF RaisingInv, Thread!Next, Thread!Ignore, Thread!vars
<1>9. CASE FillerFails
  BY <1>0, <1>9, UnwindWorks DEF FillerFails, Busy
<1>10. CASE CancelledRacing
  BY <1>0, <1>10, UnwindWorks DEF CancelledRacing, Busy
<1>11. CASE CleanedDispatch
  BY <1>0, <1>11, UnwindTimerWorks DEF CleanedDispatch, Busy, WorkerInv, RaisingInv
<1>12. CASE CleanedTimer
  <2>1. wpc \in Busy /\ wpc \notin {"race", "filler", "await", "cleanupD"} /\ raising # "none"
    BY <1>12 DEF CleanedTimer, Busy, WorkerInv, RaisingInv
  <2>2. Stage = "send"
    BY <2>1, PastCall
  <2>3. CASE raising = "cancel" /\ Die
    <3>1. Stage' = "dead" /\ RaisingInv'
      BY <1>12, <2>3, DeadStage DEF CleanedTimer, Die, DeadWorker, RaisingInv
    <3> QED BY <1>12, <2>3, <3>1 DEF CleanedTimer, Thread!Next, Thread!EndCancelled
  <2>4. CASE raising = "error" /\ wpc' = "fallback" /\ UNCHANGED current
    <3>1. Stage' = "send" /\ RaisingInv'
      BY <1>12, <2>1, <2>2, <2>4, SameStage DEF CleanedTimer, Busy, RaisingInv
    <3> QED BY <1>0, <1>12, <2>2, <2>4, <3>1
            DEF CleanedTimer, Thread!Next, Thread!Ignore, Thread!vars
  <2> QED BY <1>12, <2>3, <2>4 DEF CleanedTimer, Reraise
<1>13. CASE AnswerSent \/ FallbackFails
  <2>1. wpc \in Busy /\ wpc \notin {"race", "filler", "await", "cleanupD", "cleanupT"}
    BY <1>13 DEF AnswerSent, FallbackFails, SendKind, Busy
  <2>2. Stage = "send" /\ LoopTop /\ ~ cancel /\ raising = "none" /\ UNCHANGED <<cancel, raising>>
    BY <1>0, <1>13, <2>1, PastCall DEF AnswerSent, FallbackFails
  <2>3. RaisingInv'
    BY <2>2 DEF LoopTop, Take, RaisingInv
  <2> QED BY <2>2, <2>3, LoopTopFinishes DEF Thread!Next
<1>14. CASE FallbackCrashes
  <2>1. Stage = "send" /\ Stage' = "dead" /\ raising = "none"
    BY <1>0, <1>14, PastCall, DeadStage DEF FallbackCrashes, Busy, DeadWorker
  <2> QED BY <1>14, <2>1 DEF FallbackCrashes, RaisingInv, Thread!Next, Thread!Crash
<1>15. CASE CancelledWaiting \/ CancelledSending
  BY <1>0, <1>15, DieWorks DEF CancelledWaiting, CancelledSending, SendKind
<1>16. CASE UNCHANGED vars
  BY <1>16 DEF vars, Stage, WorkerDone, RaisingInv, WorkerInv, Thread!vars
<1> QED
  BY <1>1, <1>2, <1>3, <1>4, <1>5, <1>6, <1>7, <1>8, <1>9, <1>10, <1>11, <1>12, <1>13,
     <1>14, <1>15, <1>16 DEF Next, Worker

\* The actor is the worker that the model of the pool counts on.
THEOREM ActorImplementsWorker == Spec => ImplementsWorker
<1>1. Init => WorkerInv /\ Thread!Init
  <2>1. Init => RaisingInv /\ Stage = "get" /\ Len(queue) = 1
    BY DEF Init, RaisingInv, Stage
  <2> QED BY <2>1, TypeInit, TaskInit DEF Init, WorkerInv, Thread!Init
<1> QED BY <1>1, WorkerStep, PTL DEF Spec, ImplementsWorker, Thread!Spec
-----------------------------------------------------------------------------
(* What the refinement of ThreadService gives the sender.                  *)

Promised == INSTANCE ThreadServiceProofs WITH taken <- Taken, serving <- current, out <- sent

LEMMA SameService ==
    /\ Service!Init <=> Promised!Init
    /\ [Service!Next]_(Service!vars) <=> [Promised!Next]_(Promised!vars)
    /\ Service!InOrder <=> Promised!InOrder
    /\ Service!AnswerIsLast <=> Promised!AnswerIsLast
    /\ Service!NudgedOnce <=> Promised!NudgedOnce
<1>1. Service!Init <=> Promised!Init
  BY DEF Service!Init, Promised!Init
<1>2. (Service!Accept <=> Promised!Accept) /\ (Service!Nudge <=> Promised!Nudge)
  BY DEF Service!Accept, Promised!Accept, Service!Nudge, Promised!Nudge, Service!Received,
         Promised!Received
<1>3. (Service!Take <=> Promised!Take) /\ (Service!Settle <=> Promised!Settle)
  BY DEF Service!Take, Promised!Take, Service!Settle, Promised!Settle, Service!TakeNext,
         Promised!TakeNext, Service!Rest, Promised!Rest, Service!AnswerKinds,
         Promised!AnswerKinds
<1>4. [Service!Next]_(Service!vars) <=> [Promised!Next]_(Promised!vars)
  BY <1>2, <1>3 DEF Service!Next, Promised!Next, Service!vars, Promised!vars
<1>5. (Service!InOrder <=> Promised!InOrder) /\ (Service!NudgedOnce <=> Promised!NudgedOnce)
  BY DEF Service!InOrder, Promised!InOrder, Service!NudgedOnce, Promised!NudgedOnce
<1>6. Service!AnswerIsLast <=> Promised!AnswerIsLast
  BY DEF Service!AnswerIsLast, Promised!AnswerIsLast, Service!AnswerKinds, Promised!AnswerKinds
<1> QED BY <1>1, <1>4, <1>5, <1>6

\* The promises of the abstract service carry over to what the session delivers
\* (sent): answers in the order of acceptance, none twice, nothing after an answer,
\* one "one moment" at most, through failures, cancellations and their cleanups.
THEOREM ActorKeepsItsPromises ==
    Spec => [](Service!InOrder /\ Service!AnswerIsLast /\ Service!NudgedOnce)
<1>1. Init => FlowInv /\ Promised!Init
  BY FlowInit, SameService
<1>2. FlowInv /\ [Next]_vars => FlowInv' /\ [Promised!Next]_(Promised!vars)
  BY FlowStep, SameService
<1>3. Promised!InOrder /\ Promised!AnswerIsLast /\ Promised!NudgedOnce
        => Service!InOrder /\ Service!AnswerIsLast /\ Service!NudgedOnce
  BY SameService
<1> QED
  BY <1>1, <1>2, <1>3, Promised!ServicePromises, PTL DEF Spec, Promised!Spec

-----------------------------------------------------------------------------
(* No await is a dead end.                                                 *)

AwaitInv == WorkerInv /\ AwaitsEnd

LEMMA UsableIs == Usable = {"new", "call", "ok", "unavailable", "error"}
BY DEF Usable, AfterDispatch

\* A step of a task moves it on: towards an outcome, or to the end it was told.
LEMMA TasksMoveOn ==
    ASSUME AwaitInv, NEW e \in Events, Dispatch(e) \/ TimerEnds(e)
    PROVE  AwaitsEnd'
<1> USE Groups
<1>1. UNCHANGED <<queue, wpc, cancel, raising, current>>
  BY DEF Dispatch, DispatchStarts, DispatchReturns, DispatchRaises, DispatchCancelled,
         TimerEnds
<1>2. \A f \in Events : dispatch[f] \in Usable => dispatch'[f] \in Usable
  BY UsableIs DEF Dispatch, DispatchStarts, DispatchReturns, DispatchRaises, DispatchCancelled,
         TimerEnds, AwaitInv, WorkerInv, TypeInv, TypeOK
<1>3. \A f \in Events : /\ timer[f] \in {"armed", "done"} => timer'[f] \in {"armed", "done"}
                        /\ timer[f] \in {"cancel", "done"} => timer'[f] \in {"cancel", "done"}
  BY DEF Dispatch, DispatchStarts, DispatchReturns, DispatchRaises, DispatchCancelled,
         TimerEnds, AwaitInv, WorkerInv, TypeInv, TypeOK
<1>4. wpc = "timerWait" => dispatch'[current] = dispatch[current]
  <2>1. wpc = "timerWait" => \A f \in Events : dispatch[f] \notin LiveDispatch
    BY DEF AwaitInv, WorkerInv, TaskInv
  <2> QED BY <2>1 DEF LiveDispatch, Dispatch, DispatchStarts, DispatchReturns, DispatchRaises,
                      DispatchCancelled, TimerEnds
<1>5. wpc \in Busy => current \in Events
  BY CurrentInEvents DEF AwaitInv, WorkerInv
<1> QED BY <1>1, <1>2, <1>3, <1>4, <1>5 DEF AwaitInv, AwaitsEnd, Resolved, Busy

LEMMA AwaitStep == AwaitInv /\ [Next]_vars => AwaitInv'
<1> SUFFICES ASSUME AwaitInv, [Next]_vars PROVE AwaitsEnd'
  BY WorkerStep DEF AwaitInv
<1> USE Groups
<1>0. /\ wpc \in Busy => current \in Events
      /\ WorkerInv' /\ dispatch \in [Events -> DispatchStates]
      /\ timer \in [Events -> TimerStates]
  BY CurrentInEvents, WorkerStep DEF AwaitInv, WorkerInv, TypeInv, TypeOK
<1>1. CASE Receive
  <2>1. queue' = queue \/ queue' # <<>>
    <3>1. queue \in Seq(Events) /\ (accepted < MaxEvents => accepted + 1 \in Events)
      BY MaxEventsAssumption DEF AwaitInv, WorkerInv, TypeInv, TypeOK, Events
    <3> QED BY <1>1, <3>1, AppendProperties DEF Receive
  <2> QED BY <1>1, <2>1 DEF Receive, AwaitInv, AwaitsEnd, Resolved
<1>2. CASE MarkIdle \/ CancelIdle
  BY <1>2 DEF MarkIdle, CancelIdle, AwaitInv, AwaitsEnd, Resolved
<1>3. ASSUME NEW e \in Events, Dispatch(e) \/ TimerEnds(e) PROVE AwaitsEnd'
  BY <1>3, TasksMoveOn
<1>4. ASSUME NEW s \in Stoppers, Stopper(s) PROVE AwaitsEnd'
  <2>1. UNCHANGED <<queue, wpc, raising, current, timer>>
    BY <1>4 DEF Stopper, DrainWaits, DrainReturns, DrainTimesOut, BeginShutdown, ShutdownReturns
  <2>2. \/ UNCHANGED <<cancel, dispatch>>
        \/ /\ cancel' = TRUE
           /\ wpc # "await" => UNCHANGED dispatch
    BY <1>4 DEF Stopper, DrainWaits, DrainReturns, DrainTimesOut, BeginShutdown, ShutdownReturns
  <2> QED BY <2>1, <2>2 DEF AwaitInv, AwaitsEnd, Resolved
<1>5. ASSUME Take PROVE AwaitsEnd'
  <2>1. Head(queue) \in Events
    BY <1>5, HeadTailProperties DEF Take, AwaitInv, WorkerInv, TypeInv, TypeOK
  <2>2. wpc' = "race" /\ dispatch'[current'] = "new" /\ timer'[current'] = "armed"
    BY <1>0, <1>5, <2>1 DEF Take
  <2> QED BY <2>2, UsableIs DEF AwaitsEnd
<1>6. CASE Wake \/ AnswerSent \/ FallbackFails
  <2>1. Take \/ wpc' = "get"
    BY <1>6 DEF Wake, AnswerSent, FallbackFails, LoopTop
  <2> QED BY <1>5, <2>1 DEF AwaitsEnd
<1>7. CASE RaceWon
  <2>1. UNCHANGED <<dispatch, current>> /\ Resolved /\ current \in Events
    BY <1>0, <1>7 DEF RaceWon, Busy
  <2>2. \/ wpc' \in {"reply", "fallbackCU", "fallback"}
        \/ wpc' = "timerWait" /\ timer'[current] = "cancel"
    BY <1>0, <1>7, <2>1, AfterDispatchType DEF RaceWon
  <2> QED BY <2>1, <2>2 DEF AwaitsEnd, Resolved
<1>8. CASE TimerStopped \/ Awaited
  <2>1. wpc' \in {"reply", "fallbackCU", "fallback"}
    BY <1>8, AfterDispatchType DEF TimerStopped, Awaited, AwaitInv, WorkerInv, TypeInv, CurrentInv
  <2> QED BY <2>1 DEF AwaitsEnd
<1>9. CASE RaceTimedOut
  BY <1>9 DEF RaceTimedOut, AwaitInv, AwaitsEnd
<1>10. CASE FillerSent
  <2>1. \/ wpc' \in {"reply", "fallbackCU", "fallback"}
        \/ wpc' = "await" /\ UNCHANGED <<dispatch, current>> /\ wpc = "filler"
    BY <1>10, AfterDispatchType DEF FillerSent
  <2> QED BY <2>1 DEF AwaitInv, AwaitsEnd
<1>11. CASE FillerFails \/ CancelledRacing \/ CleanedDispatch
  <2>1. wpc' \in {"cleanupD", "cleanupT", "fallback", "cancelled"}
    BY <1>11 DEF FillerFails, CancelledRacing, CleanedDispatch, Unwind, UnwindTimer, Reraise, Die
  <2> QED BY <1>0, <2>1 DEF AwaitsEnd, WorkerInv, RaisingInv
<1>12. CASE \/ CleanedTimer \/ ReplyFails \/ FallbackCrashes
           \/ CancelledWaiting \/ CancelledSending
  <2>1. wpc' \in {"fallback", "cancelled", "crashed"}
    BY <1>12 DEF CleanedTimer, ReplyFails, FallbackCrashes, CancelledWaiting, CancelledSending,
                 Reraise, Die
  <2> QED BY <2>1 DEF AwaitsEnd
<1>13. CASE UNCHANGED vars
  BY <1>13 DEF vars, AwaitInv, AwaitsEnd, Resolved
<1> QED
  BY <1>1, <1>2, <1>3, <1>4, <1>6, <1>7, <1>8, <1>9, <1>10, <1>11, <1>12, <1>13
     DEF Next, Worker

LEMMA WorkerInit == Init => WorkerInv /\ AwaitsEnd
<1>1. Init => RaisingInv /\ AwaitsEnd
  BY DEF Init, RaisingInv, AwaitsEnd
<1> QED BY <1>1, TypeInit, TaskInit DEF WorkerInv

\* Whatever interleaving of outcomes, timers, failures and any number of callers
\* that cancel: the worker never waits for what cannot come.
THEOREM ActorAwaitsEnd == Spec => []AwaitsEnd
<1>1. Init => AwaitInv
  BY WorkerInit DEF AwaitInv
<1>2. AwaitInv => AwaitsEnd
  BY DEF AwaitInv
<1> QED BY <1>1, <1>2, AwaitStep, PTL DEF Spec
-----------------------------------------------------------------------------
(* What is over stays over.                                                *)

OverInv == FlowInv /\ TaskInv

\* What a step may do to an event that is over: nothing.
LeavesAlone(e) ==
    /\ e # current' /\ dispatch'[e] = dispatch[e] /\ timer'[e] = timer[e]
    /\ \A i \in Len(sent) + 1 .. Len(sent') : sent'[i].event # e

\* A delivery is about the event the worker is on.
LEMMA DeliveredIsCurrent ==
    ASSUME FlowInv, UNCHANGED sent \/ (wpc \in Busy /\ \E k \in MessageKinds : Delivered(k)),
           NEW e, e # current
    PROVE  \A i \in Len(sent) + 1 .. Len(sent') : sent'[i].event # e
<1>1. Len(sent) \in Nat
  BY LenProperties DEF FlowInv, TypeInv, TypeOK
<1>2. CASE UNCHANGED sent
  BY <1>1, <1>2
<1>3. ASSUME NEW k \in MessageKinds, wpc \in Busy, Delivered(k)
      PROVE  \A i \in Len(sent) + 1 .. Len(sent') : sent'[i].event # e
  <2>1. current \in Events /\ sent \in Seq(Message)
    BY <1>3, CurrentInEvents DEF FlowInv, TypeInv, TypeOK
  <2>2. [event |-> current, kind |-> k] \in Message
    BY <2>1 DEF Message
  <2>3. Len(sent') = Len(sent) + 1 /\ sent'[Len(sent) + 1] = [event |-> current, kind |-> k]
    BY <1>3, <2>1, <2>2, AppendProperties DEF Delivered
  <2> QED BY <1>1, <2>3
<1> QED BY <1>2, <1>3

\* An event that is over was taken, is not the next one, and its tasks are dead.
LEMMA OverFacts ==
    ASSUME OverInv, NEW e \in 1 .. Taken, e # current
    PROVE  /\ e \in Events /\ dispatch[e] \notin LiveDispatch /\ timer[e] \notin LiveTimer
           /\ queue # <<>> => Head(queue) # e /\ Head(queue) \in Events
<1>1. accepted \in Nat /\ Len(queue) \in Nat /\ Taken = accepted - Len(queue)
      /\ queue \in Seq(Events) /\ accepted <= MaxEvents /\ MaxEvents \in Nat
  BY FlowTypes, MaxEventsAssumption DEF OverInv, FlowInv, TypeInv, TypeOK, Taken
<1>2. e \in Events
  BY <1>1 DEF Events
<1>3. queue # <<>> => Len(queue) >= 1 /\ Head(queue) = queue[1] /\ Head(queue) \in Events
  BY <1>1, HeadTailProperties, EmptySeq
<1>4. queue # <<>> => Head(queue) = Taken + 1
  BY <1>1, <1>3 DEF OverInv, FlowInv, FIFOInv
<1> QED BY <1>1, <1>2, <1>3, <1>4 DEF OverInv, TaskInv

LEMMA OverStep ==
    ASSUME OverInv, [Next]_vars, NEW e \in 1 .. Taken, e # current
    PROVE  LeavesAlone(e)
<1> USE Groups, OverFacts
<1>0. /\ dispatch \in [Events -> DispatchStates] /\ timer \in [Events -> TimerStates]
      /\ wpc \in Busy => current \in Events
      /\ e # 0 /\ e \in Events
  BY CurrentInEvents DEF OverInv, FlowInv, TypeInv, TypeOK, Events
<1>1. ASSUME /\ \/ UNCHANGED sent
                \/ wpc \in Busy /\ \E k \in MessageKinds : Delivered(k)
             /\ e # current' /\ dispatch'[e] = dispatch[e] /\ timer'[e] = timer[e]
      PROVE  LeavesAlone(e)
  BY <1>1, DeliveredIsCurrent DEF LeavesAlone, OverInv
<1>2. CASE Receive \/ MarkIdle \/ CancelIdle
  BY <1>1, <1>2 DEF Receive, MarkIdle, CancelIdle
<1>3. ASSUME NEW f \in Events, Dispatch(f) \/ TimerEnds(f) PROVE LeavesAlone(e)
  <2>1. UNCHANGED <<sent, current>>
    BY <1>3 DEF Dispatch, DispatchStarts, DispatchReturns, DispatchRaises, DispatchCancelled,
                TimerEnds
  <2>2. f = e => ~ Dispatch(f) /\ ~ TimerEnds(f)
    BY DEF Dispatch, DispatchStarts, DispatchReturns, DispatchRaises, DispatchCancelled,
           TimerEnds, LiveDispatch, LiveTimer
  <2>3. dispatch'[e] = dispatch[e] /\ timer'[e] = timer[e]
    BY <1>0, <1>3, <2>2 DEF Dispatch, DispatchStarts, DispatchReturns, DispatchRaises,
                            DispatchCancelled, TimerEnds
  <2> QED BY <1>1, <2>1, <2>3
<1>4. ASSUME NEW s \in Stoppers, Stopper(s) PROVE LeavesAlone(e)
  <2>1. UNCHANGED <<sent, current, timer>> /\ dispatch'[e] = dispatch[e]
    BY <1>0, <1>4 DEF Stopper, DrainWaits, DrainReturns, DrainTimesOut, BeginShutdown,
                      ShutdownReturns
  <2> QED BY <1>1, <2>1
<1>5. ASSUME LoopTop PROVE e # current' /\ dispatch'[e] = dispatch[e] /\ timer'[e] = timer[e]
  BY <1>0, <1>5 DEF LoopTop, Take
<1>6. CASE Wake
  BY <1>1, <1>5, <1>6 DEF Wake, LoopTop
<1>7. CASE AnswerSent
  <2>1. wpc \in Busy /\ LoopTop /\ \E k \in MessageKinds : Delivered(k)
    BY <1>7 DEF AnswerSent, SendKind, Busy, MessageKinds
  <2> QED BY <1>1, <1>5, <2>1
<1>8. CASE FallbackFails
  BY <1>1, <1>5, <1>8 DEF FallbackFails
<1>9. CASE RaceWon \/ TimerStopped \/ RaceTimedOut \/ Awaited \/ ReplyFails
  <2>1. UNCHANGED <<sent, current, dispatch>> /\ timer'[e] = timer[e]
    BY <1>0, <1>9 DEF RaceWon, TimerStopped, RaceTimedOut, Awaited, ReplyFails
  <2> QED BY <1>1, <2>1
<1>10. CASE FillerSent
  BY <1>1, <1>10 DEF FillerSent, Busy, MessageKinds
<1>11. ASSUME NEW exc, Unwind(exc) \/ (UnwindTimer(exc) /\ UNCHANGED dispatch)
       PROVE  e # current' /\ dispatch'[e] = dispatch[e] /\ timer'[e] = timer[e]
  BY <1>0, <1>11 DEF Unwind, UnwindTimer, Reraise, Die
<1>12. CASE FillerFails \/ CleanedDispatch
  <2>1. /\ UNCHANGED sent
        /\ \E exc \in {"error", raising} :
              Unwind(exc) \/ (UnwindTimer(exc) /\ UNCHANGED dispatch)
    BY <1>12 DEF FillerFails, CleanedDispatch
  <2> QED BY <1>1, <1>11, <2>1
<1>13. CASE CancelledRacing
  <2>1. /\ Unwind("cancel")
        /\ UNCHANGED sent \/ (wpc \in Busy /\ \E k \in MessageKinds : Delivered(k))
    BY <1>13 DEF CancelledRacing, Busy, MessageKinds
  <2> QED BY <1>1, <1>11, <2>1
<1>14. CASE CleanedTimer \/ FallbackCrashes \/ CancelledWaiting
  <2>1. UNCHANGED <<sent, dispatch, timer>> /\ current' \in {current, 0}
    BY <1>14 DEF CleanedTimer, FallbackCrashes, CancelledWaiting, Reraise, Die
  <2> QED BY <1>0, <1>1, <2>1
<1>15. CASE CancelledSending
  <2>1. /\ UNCHANGED <<dispatch, timer>> /\ current' = 0
        /\ UNCHANGED sent \/ (wpc \in Busy /\ \E k \in MessageKinds : Delivered(k))
    BY <1>15 DEF CancelledSending, Die, SendKind, Busy, MessageKinds
  <2> QED BY <1>0, <1>1, <2>1
<1>16. CASE UNCHANGED vars
  BY <1>1, <1>16 DEF vars
<1> QED
  BY <1>2, <1>3, <1>4, <1>6, <1>7, <1>8, <1>9, <1>10, <1>12, <1>13, <1>14, <1>15, <1>16
     DEF Next, Worker

\* No step of any task, cancelled or not, touches an event the worker is done with.
THEOREM ActorOverIsOver == Spec => OverIsOver
<1>1. Init => OverInv
  BY FlowInit, TaskInit DEF OverInv
<1>2. OverInv /\ [Next]_vars => OverInv'
  BY FlowStep, TaskStep DEF OverInv, FlowInv
<1>3. OverInv /\ [Next]_vars =>
          [\A e \in 1 .. Taken : e # current =>
              /\ e # current' /\ dispatch'[e] = dispatch[e] /\ timer'[e] = timer[e]
              /\ \A i \in Len(sent) + 1 .. Len(sent') : sent'[i].event # e]_vars
  BY OverStep DEF LeavesAlone
<1> QED BY <1>1, <1>2, <1>3, PTL DEF Spec, OverIsOver
-----------------------------------------------------------------------------
(* Where the docstrings that the code breaks do hold.                      *)

\* The idle marker means what drain() takes it for, if nobody leaves in the middle
\* of an event.
RestInv == TypeInv /\ (idle => current = 0)

LEMMA RestStep ==
    RestInv /\ [Next]_vars /\ [MarkIdle => current = 0]_vars => RestInv'
<1> SUFFICES ASSUME RestInv, [Next]_vars, [MarkIdle => current = 0]_vars
             PROVE  (idle => current = 0)'
  BY TypeStep DEF RestInv
<1> USE Groups
<1>1. CASE Receive \/ CancelIdle
  BY <1>1 DEF Receive, CancelIdle
<1>2. CASE MarkIdle
  <2>1. idle' # idle
    BY <1>2 DEF MarkIdle
  <2>2. current = 0
    BY <1>2, <2>1 DEF vars
  <2> QED BY <1>2, <2>2 DEF MarkIdle
<1>3. ASSUME NEW e \in Events, Dispatch(e) \/ TimerEnds(e) PROVE (idle => current = 0)'
  BY <1>3 DEF Dispatch, DispatchStarts, DispatchReturns, DispatchRaises, DispatchCancelled,
              TimerEnds, RestInv
<1>4. ASSUME NEW s \in Stoppers, Stopper(s) PROVE (idle => current = 0)'
  BY <1>4 DEF Stopper, DrainWaits, DrainReturns, DrainTimesOut, BeginShutdown, ShutdownReturns,
              RestInv
<1>5. CASE Wake \/ AnswerSent \/ FallbackFails
  BY <1>5 DEF Wake, AnswerSent, FallbackFails, LoopTop, Take
<1>6. CASE \/ RaceWon \/ TimerStopped \/ RaceTimedOut \/ FillerSent \/ Awaited \/ ReplyFails
  BY <1>6 DEF RaceWon, TimerStopped, RaceTimedOut, FillerSent, Awaited, ReplyFails, RestInv
<1>7. CASE FillerFails \/ CancelledRacing \/ CleanedDispatch \/ CleanedTimer
  <2>1. UNCHANGED idle /\ current' \in {current, 0}
    BY <1>7 DEF FillerFails, CancelledRacing, CleanedDispatch, CleanedTimer, Unwind, UnwindTimer,
                Reraise, Die
  <2> QED BY <2>1 DEF RestInv
<1>8. CASE FallbackCrashes \/ CancelledWaiting \/ CancelledSending
  BY <1>8 DEF FallbackCrashes, CancelledWaiting, CancelledSending, Die
<1>9. CASE UNCHANGED vars
  BY <1>9 DEF vars, RestInv
<1> QED BY <1>1, <1>2, <1>3, <1>4, <1>5, <1>6, <1>7, <1>8, <1>9 DEF Next, Worker

\* drain() returns only when the worker has settled, as its docstring says, unless
\* the sender leaves while the worker is on an event: mark_idle is the only other
\* source of the marker.
THEOREM ActorDrainSettlesUnlessLeft ==
    Spec /\ [][MarkIdle => current = 0]_vars => DrainSettles
<1>1. Init => RestInv
  BY TypeInit DEF Init, RestInv
<1>2. RestInv /\ [Next]_vars => [\A s \in Stoppers : DrainReturns(s) => current = 0]_vars
  BY DEF RestInv, DrainReturns, Settled
<1> QED BY <1>1, <1>2, RestStep, PTL DEF Spec, DrainSettles

\* The worker has ended, or will when it next runs.
Ending == cancel \/ raising = "cancel" \/ WorkerDone

\* The awaits at which the worker takes its own cancellation for the one of the
\* timer or the dispatch that it has cancelled itself, and goes on.
SuppressesCancel ==
    cancel /\ (TimerStopped \/ (raising = "error" /\ (CleanedDispatch \/ CleanedTimer)))

EndingInv == \A s \in Stoppers : spc[s] = "stopping" => Ending

LEMMA EndingStep ==
    /\ TypeInv /\ RaisingInv /\ EndingInv
    /\ [Next]_vars /\ [~ SuppressesCancel]_vars
    => EndingInv'
<1> SUFFICES ASSUME TypeInv, RaisingInv, EndingInv, [Next]_vars, [~ SuppressesCancel]_vars
             PROVE  EndingInv'
  OBVIOUS
<1> USE Groups
<1>0. cancel \in BOOLEAN /\ raising \in {"none", "cancel", "error"}
  BY DEF TypeInv, TypeOK
<1>1. ASSUME UNCHANGED spc, Ending => Ending' PROVE EndingInv'
  BY <1>1 DEF EndingInv, Ending
<1>2. CASE Receive \/ MarkIdle \/ CancelIdle
  BY <1>1, <1>2 DEF Receive, MarkIdle, CancelIdle, Ending, WorkerDone
<1>3. ASSUME NEW e \in Events, Dispatch(e) \/ TimerEnds(e) PROVE EndingInv'
  BY <1>1, <1>3 DEF Dispatch, DispatchStarts, DispatchReturns, DispatchRaises,
                    DispatchCancelled, TimerEnds, Ending, WorkerDone
<1>4. ASSUME NEW s \in Stoppers, Stopper(s) PROVE EndingInv'
  <2>1. Ending => Ending'
    BY <1>4 DEF Stopper, DrainWaits, DrainReturns, DrainTimesOut, BeginShutdown,
                ShutdownReturns, Ending, WorkerDone
  <2>2. \A r \in Stoppers : r # s => spc'[r] = spc[r]
    BY <1>4 DEF Stopper, DrainWaits, DrainReturns, DrainTimesOut, BeginShutdown,
                ShutdownReturns, TypeInv, TypeOK
  <2>3. spc'[s] = "stopping" => cancel' = TRUE
    BY <1>4 DEF Stopper, DrainWaits, DrainReturns, DrainTimesOut, BeginShutdown,
                ShutdownReturns, TypeInv, TypeOK
  <2> QED BY <2>1, <2>2, <2>3 DEF EndingInv, Ending
<1>5. CASE \/ Wake \/ RaceWon \/ RaceTimedOut \/ FillerSent \/ Awaited \/ AnswerSent
           \/ ReplyFails \/ FallbackFails \/ FallbackCrashes
  <2>1. ~ cancel /\ ~ WorkerDone /\ wpc \notin {"cleanupD", "cleanupT"} /\ UNCHANGED spc
    BY <1>5 DEF Wake, RaceWon, RaceTimedOut, FillerSent, Awaited, AnswerSent, ReplyFails,
                FallbackFails, FallbackCrashes, SendKind, WorkerDone, DeadWorker
  <2> QED BY <1>1, <2>1 DEF Ending, RaisingInv
<1>6. CASE FillerFails
  <2>1. ~ Ending /\ UNCHANGED spc
    BY <1>6 DEF FillerFails, Ending, WorkerDone, DeadWorker, RaisingInv
  <2> QED BY <1>1, <2>1
<1>7. CASE TimerStopped
  <2>1. ~ SuppressesCancel
    BY <1>7 DEF TimerStopped, AfterDispatch, Resolved, vars, TypeInv, CurrentInv
  <2>2. ~ Ending /\ UNCHANGED spc
    BY <1>7, <2>1 DEF TimerStopped, SuppressesCancel, Ending, WorkerDone, DeadWorker, RaisingInv
  <2> QED BY <1>1, <2>2
<1>8. CASE CleanedDispatch \/ CleanedTimer
  <2>1. ~ SuppressesCancel
    <3>1. wpc' # wpc
      BY <1>8 DEF CleanedDispatch, CleanedTimer, UnwindTimer, Reraise, Die
    <3> QED BY <3>1 DEF vars, workerVars
  <2>2. wpc \in {"cleanupD", "cleanupT"} /\ UNCHANGED spc
    BY <1>8 DEF CleanedDispatch, CleanedTimer
  <2>3. CASE raising = "cancel"
    <3>1. raising' = "cancel" \/ wpc' = "cancelled"
      BY <1>8, <2>3 DEF CleanedDispatch, CleanedTimer, UnwindTimer, Reraise, Die
    <3> QED BY <1>1, <2>2, <3>1 DEF Ending, WorkerDone, DeadWorker
  <2>4. CASE raising = "error"
    <3>1. ~ Ending
      BY <1>8, <2>1, <2>2, <2>4 DEF SuppressesCancel, Ending, WorkerDone, DeadWorker
    <3> QED BY <1>1, <2>2, <3>1
  <2> QED BY <1>0, <2>2, <2>3, <2>4 DEF RaisingInv
<1>9. CASE CancelledWaiting \/ CancelledSending
  BY <1>1, <1>9 DEF CancelledWaiting, CancelledSending, Die, Ending, WorkerDone, DeadWorker
<1>10. CASE CancelledRacing
  <2>1. raising' = "cancel" \/ wpc' = "cancelled"
    BY <1>10 DEF CancelledRacing, Unwind, UnwindTimer, Reraise, Die
  <2> QED BY <1>1, <1>10, <2>1 DEF CancelledRacing, Ending, WorkerDone, DeadWorker
<1>11. CASE UNCHANGED vars
  BY <1>1, <1>11 DEF vars, Ending, WorkerDone
<1> QED
  BY <1>2, <1>3, <1>4, <1>5, <1>6, <1>7, <1>8, <1>9, <1>10, <1>11 DEF Next, Worker

\* shutdown() awaits a worker that has ended or is about to, unless a cancellation
\* was suppressed at the await of the timer that lost the race, or in a cleanup
\* that an error began: there is no third way to make it wait for good.
THEOREM ActorShutdownEndsUnlessSuppressed ==
    Spec /\ [][~ SuppressesCancel]_vars => []EndingInv
<1>1. Init => TypeInv /\ RaisingInv /\ EndingInv
  BY TypeInit DEF Init, RaisingInv, EndingInv, TypeOK
<1>2. Init => WorkerInv
  BY WorkerInit
<1>3. WorkerInv => TypeInv /\ RaisingInv
  BY DEF WorkerInv
<1> QED BY <1>1, <1>2, <1>3, WorkerStep, EndingStep, PTL DEF Spec

\* A worker that has ended was cancelled by a shutdown, if it did not crash.
EndedInv == TypeInv /\ CancelInv /\ WorkerRunsUntilCancelled

LEMMA EndedStep == EndedInv /\ [Next]_vars /\ [~ FallbackCrashes]_vars => EndedInv'
<1> SUFFICES ASSUME EndedInv, [Next]_vars, [~ FallbackCrashes]_vars
             PROVE  WorkerRunsUntilCancelled'
  BY TypeStep, CancelStep DEF EndedInv
<1> USE Groups
<1>0. stopping => stopping'
  BY CancelStep DEF EndedInv
<1>1. ASSUME wpc' \notin DeadWorker \/ stopping PROVE WorkerRunsUntilCancelled'
  BY <1>0, <1>1 DEF WorkerRunsUntilCancelled, WorkerDone
<1>2. CASE UNCHANGED wpc
  BY <1>1, <1>2 DEF EndedInv, WorkerRunsUntilCancelled, WorkerDone
<1>3. CASE \/ Wake \/ RaceWon \/ TimerStopped \/ RaceTimedOut \/ FillerSent \/ Awaited
           \/ AnswerSent \/ ReplyFails \/ FallbackFails
  <2>1. wpc' \notin DeadWorker
    BY <1>3, AfterDispatchType
       DEF Wake, RaceWon, TimerStopped, RaceTimedOut, FillerSent, Awaited, AnswerSent, ReplyFails,
           FallbackFails, LoopTop, Take, DeadWorker, EndedInv, TypeInv, CurrentInv
  <2> QED BY <1>1, <2>1
<1>4. CASE FillerFails \/ CleanedDispatch \/ CleanedTimer
  <2>1. wpc' \in DeadWorker => raising = "cancel"
    BY <1>4 DEF FillerFails, CleanedDispatch, CleanedTimer, Unwind, UnwindTimer, Reraise, Die,
                DeadWorker
  <2> QED BY <1>1, <2>1 DEF EndedInv, CancelInv
<1>5. CASE CancelledWaiting \/ CancelledSending \/ CancelledRacing
  BY <1>1, <1>5 DEF CancelledWaiting, CancelledSending, CancelledRacing, EndedInv, CancelInv
<1>6. CASE FallbackCrashes
  <2>1. wpc' # wpc
    BY <1>6 DEF FallbackCrashes
  <2> QED BY <1>6, <2>1 DEF vars, workerVars
<1>7. ASSUME NEW e \in Events, Dispatch(e) \/ TimerEnds(e) PROVE UNCHANGED wpc
  BY <1>7 DEF Dispatch, DispatchStarts, DispatchReturns, DispatchRaises, DispatchCancelled,
              TimerEnds
<1>8. ASSUME NEW s \in Stoppers, Stopper(s) PROVE UNCHANGED wpc
  BY <1>8 DEF Stopper, DrainWaits, DrainReturns, DrainTimesOut, BeginShutdown, ShutdownReturns
<1>9. Receive \/ MarkIdle \/ CancelIdle \/ UNCHANGED vars => UNCHANGED wpc
  BY DEF Receive, MarkIdle, CancelIdle, vars
<1> QED BY <1>2, <1>3, <1>4, <1>5, <1>6, <1>7, <1>8, <1>9 DEF Next, Worker

\* The worker loops until it is cancelled, as its docstring says, through every
\* other failure: the unprotected fallback is the only error that ends it.
THEOREM ActorWorkerRunsUnlessCrashed ==
    Spec /\ [][~ FallbackCrashes]_vars => []WorkerRunsUntilCancelled
<1>1. Init => EndedInv
  BY TypeInit DEF Init, EndedInv, CancelInv, WorkerRunsUntilCancelled, WorkerDone, DeadWorker
<1>2. EndedInv => WorkerRunsUntilCancelled
  BY DEF EndedInv
<1> QED BY <1>1, <1>2, EndedStep, PTL DEF Spec
=============================================================================
