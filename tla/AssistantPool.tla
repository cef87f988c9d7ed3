---------------------------- MODULE AssistantPool ----------------------------
(***************************************************************************)
(* The actor pool of one meeting (assistant.py): routing of messages to    *)
(* per-thread actors, the reap timers of senders who left, the reap tasks  *)
(* they start, the global semaphore on cortex calls, and shutdown.         *)
(*                                                                         *)
(* An actor is seen here as the pool sees it: a queue, an idle marker and  *)
(* a worker that takes, waits for a semaphore slot, calls cortex, sends,   *)
(* and ends when it is cancelled or crashes.  ChatThreadActor has the      *)
(* detail.  Handlers do not suspend between their first and last change of *)
(* the pool's state, so each is one step; the steps of a task that does    *)
(* suspend (a reap, shutdown) are its runs between two suspensions.        *)
(*                                                                         *)
(* Abstracted: messages that the visibility, allowlist, admin-grammar or   *)
(* public-mention gates stop never reach the pool; a message is counted,   *)
(* not named; a timer fires, and a drain times out, whenever it is armed.  *)
(***************************************************************************)
EXTENDS Naturals, FiniteSets

CONSTANTS
    Persons,        \* canonical ids of the senders of private messages
    Public,         \* the thread of the meeting's public mentions
    QueueDepth,     \* AssistantConfig.per_thread_queue_depth
    Slots,          \* AssistantConfig.per_meeting_global_concurrency
    MaxActors,      \* bound on the actors spawned during the meeting
    MaxMessages,    \* bound on the messages that actors accept
    MaxReaps        \* bound on the reaps of one thread that are due at once

NoThread == "none"

ASSUME PublicAssumption == Public \notin Persons
ASSUME NamesAssumption == NoThread \notin Persons \cup {Public}
ASSUME BoundsAssumption ==
    /\ {QueueDepth, Slots, MaxActors, MaxMessages, MaxReaps} \subseteq Nat \ {0}

Threads == Persons \cup {Public}
Actors  == 1 .. MaxActors
NoActor == 0

VARIABLES
    away,       \* history: the senders who left and were not heard of since
    actors,     \* _actors: the actor of a thread, or NoActor
    timers,     \* _reap_timers: "none", or whether the handle has "fired"
    orphans,    \* armed timers no longer in _reap_timers, per thread
    reapsDue,   \* reap tasks created and not yet run, per thread
    owner,      \* the key of an actor, NoThread before it is spawned
    accepted,   \* messages that actors have accepted
    queue,      \* how many of them wait in its queue
    idle,       \* its _idle_since is not None
    worker,     \* what its worker task does
    cancel,     \* its worker task has been cancelled and has not run since
    reap,       \* the reap task that popped it from the pool
    slots,      \* free slots of the semaphore
    closing,    \* Assistant.shutdown
    todo,       \* its snapshot of the pool, less the actors already shut down
    known       \* history: the actors spawned when it began

timerVars == <<timers, orphans, reapsDue>>
actorVars == <<owner, accepted, queue, idle, worker, cancel>>
closeVars == <<closing, todo, known>>
vars == <<away, actors, timerVars, actorVars, reap, slots, closeVars>>

Alive == {"get", "slot", "call", "send"}
StopStages == {"none", "draining", "stopping", "done"}

TypeOK ==
    /\ away \subseteq Persons
    /\ actors \in [Threads -> Actors \cup {NoActor}]
    /\ timers \in [Threads -> {"none", "armed", "fired"}]
    /\ orphans \in [Threads -> Nat]
    /\ reapsDue \in [Threads -> Nat]
    /\ owner \in [Actors -> Threads \cup {NoThread}]
    /\ accepted \in 0 .. MaxMessages
    /\ queue \in [Actors -> 0 .. QueueDepth]
    /\ idle \in [Actors -> BOOLEAN]
    /\ worker \in [Actors -> Alive \cup {"none", "dead"}]
    /\ cancel \in [Actors -> BOOLEAN]
    /\ reap \in [Actors -> StopStages]
    /\ slots \in 0 .. Slots
    /\ closing \in StopStages
    /\ todo \subseteq Actors
    /\ known \subseteq Actors

Init ==
    /\ away = {}
    /\ actors = [t \in Threads |-> NoActor]
    /\ timers = [t \in Threads |-> "none"]
    /\ orphans = [t \in Threads |-> 0]
    /\ reapsDue = [t \in Threads |-> 0]
    /\ owner = [a \in Actors |-> NoThread]
    /\ accepted = 0
    /\ queue = [a \in Actors |-> 0]
    /\ idle = [a \in Actors |-> FALSE]
    /\ worker = [a \in Actors |-> "none"]
    /\ cancel = [a \in Actors |-> FALSE]
    /\ reap = [a \in Actors |-> "none"]
    /\ slots = Slots
    /\ closing = "none"
    /\ todo = {}
    /\ known = {}

-----------------------------------------------------------------------------
(* Routing and the participants' comings and goings.                       *)

\* Mutant: the queue is not bounded.
AcceptsAlways(a) == TRUE
Accepts(a) == queue[a] < QueueDepth

\* A message of thread t finds its actor: the pending reap timer is cancelled,
\* the idle marker cleared, and the message enqueued.  A full queue refuses it
\* (the sender is told to wait; a public mention is dropped).
Reuse(t) ==
    LET a == actors[t] IN
    /\ a # NoActor
    /\ timers' = [timers EXCEPT ![t] = "none"]
    /\ idle' = [idle EXCEPT ![a] = FALSE]
    /\ \/ /\ Accepts(a) /\ accepted < MaxMessages
          /\ queue' = [queue EXCEPT ![a] = @ + 1]
          /\ accepted' = accepted + 1
       \/ /\ ~ Accepts(a)
          /\ UNCHANGED <<queue, accepted>>
    /\ UNCHANGED <<actors, orphans, reapsDue, owner, worker>>

\* A message of thread t finds no actor: one is spawned, started and given the
\* message.
Spawn(t) ==
    /\ actors[t] = NoActor /\ accepted < MaxMessages
    /\ \E a \in Actors :
          /\ owner[a] = NoThread
          /\ \A b \in Actors : owner[b] = NoThread => a <= b
          /\ owner' = [owner EXCEPT ![a] = t]
          /\ actors' = [actors EXCEPT ![t] = a]
          /\ worker' = [worker EXCEPT ![a] = "get"]
          /\ queue' = [queue EXCEPT ![a] = 1]
          /\ accepted' = accepted + 1
    /\ UNCHANGED <<timers, orphans, reapsDue, idle>>

\* The platform delivers nothing more once shutdown has returned.
MeetingIsOn == closing # "done"

\* The handler does not ask who is in the meeting: a message that comes after its
\* sender's leave is taken for a rejoin, and cancels the timer all the same.
OnMessage(t) ==
    /\ MeetingIsOn
    /\ away' = away \ {t}
    /\ Reuse(t) \/ Spawn(t)
    /\ UNCHANGED <<cancel, reap, slots, closeVars>>

\* The sender leaves: with an actor, mark it idle and arm a timer in the place
\* of the one it may have, which is cancelled.
OnParticipantLeft(p) ==
    /\ MeetingIsOn
    /\ away' = away \cup {p}
    /\ \/ /\ actors[p] # NoActor
          /\ orphans[p] + reapsDue[p] < MaxReaps
          /\ idle' = [idle EXCEPT ![actors[p]] = TRUE]
          /\ timers' = [timers EXCEPT ![p] = "armed"]
       \/ /\ actors[p] = NoActor
          /\ UNCHANGED <<idle, timers>>
    /\ UNCHANGED <<actors, orphans, reapsDue, owner, accepted, queue, worker, cancel,
                   reap, slots, closeVars>>

OnParticipantJoined(p) ==
    /\ MeetingIsOn
    /\ away' = away \ {p}
    /\ idle' = IF actors[p] # NoActor THEN [idle EXCEPT ![actors[p]] = FALSE] ELSE idle
    /\ timers' = [timers EXCEPT ![p] = "none"]
    /\ UNCHANGED <<actors, orphans, reapsDue, owner, accepted, queue, worker, cancel,
                   reap, slots, closeVars>>

\* Mutant: the callback also asks is_idle_for, and gives up on an actor whose
\* worker has taken a message since.
FireTimerIfIdle(p) ==
    /\ timers[p] = "armed"
    /\ timers' = [timers EXCEPT ![p] = "fired"]
    /\ LET busy == actors[p] # NoActor /\ idle[actors[p]] = FALSE IN
       reapsDue' = [reapsDue EXCEPT ![p] = IF busy THEN @ ELSE @ + 1]
    /\ UNCHANGED <<away, actors, orphans, actorVars, reap, slots, closeVars>>

\* The grace is over: the callback of call_later creates the reap task.  The
\* handle of a timer in _reap_timers stays there until the task runs.
FireTimer(p) ==
    /\ \/ /\ timers[p] = "armed"
          /\ timers' = [timers EXCEPT ![p] = "fired"]
          /\ UNCHANGED orphans
       \/ /\ orphans[p] > 0
          /\ orphans' = [orphans EXCEPT ![p] = @ - 1]
          /\ UNCHANGED timers
    /\ reapsDue' = [reapsDue EXCEPT ![p] = @ + 1]
    /\ UNCHANGED <<away, actors, actorVars, reap, slots, closeVars>>

-----------------------------------------------------------------------------
(* Draining and shutting down an actor: a reap task and Assistant.shutdown *)
(* do the same to it.                                                      *)

Settled(a) == queue[a] = 0 /\ idle[a]

\* The stage that follows the first test of drain(), or its end: shutdown()
\* cancels a worker that still runs and awaits it.
AfterDrain(a) == IF worker[a] = "dead" THEN "done" ELSE "stopping"
Cancelled(a)  == [cancel EXCEPT ![a] = worker[a] # "dead"]

\* Mutants: the pool keeps the actor until it is shut down; or it keeps the timer.
PopActorLater(p) == UNCHANGED actors
PopTimerNever(p) == UNCHANGED <<timers, orphans>>

PopActor(p) == actors' = [actors EXCEPT ![p] = NoActor]

\* Whatever timer the thread has by now is dropped without being cancelled.
PopTimer(p) ==
    /\ timers' = [timers EXCEPT ![p] = "none"]
    /\ orphans' = IF timers[p] = "armed" THEN [orphans EXCEPT ![p] = @ + 1] ELSE orphans

\* The reap task first runs: actor and timer leave the pool before the drain.
RunReap(p) ==
    LET a == actors[p] IN
    /\ reapsDue[p] > 0
    /\ reapsDue' = [reapsDue EXCEPT ![p] = @ - 1]
    /\ PopActor(p)
    /\ PopTimer(p)
    /\ \/ /\ a = NoActor
          /\ UNCHANGED <<reap, cancel>>
       \/ /\ a # NoActor /\ Settled(a)
          /\ reap' = [reap EXCEPT ![a] = AfterDrain(a)]
          /\ cancel' = Cancelled(a)
       \/ /\ a # NoActor /\ ~ Settled(a)
          /\ reap' = [reap EXCEPT ![a] = "draining"]
          /\ UNCHANGED cancel
    /\ UNCHANGED <<away, owner, accepted, queue, idle, worker, slots, closeVars>>

\* Mutant: a drain that times out ends the reap.
EndReapDrainGivesUp(a) ==
    /\ reap[a] = "draining"
    /\ reap' = [reap EXCEPT ![a] = IF Settled(a) THEN AfterDrain(a) ELSE "done"]
    /\ cancel' = IF Settled(a) THEN Cancelled(a) ELSE cancel
    /\ UNCHANGED <<away, actors, timerVars, owner, accepted, queue, idle, worker,
                   slots, closeVars>>

\* drain() returns at a poll or times out; either way the actor is shut down.
EndReapDrain(a) ==
    /\ reap[a] = "draining"
    /\ reap' = [reap EXCEPT ![a] = AfterDrain(a)]
    /\ cancel' = Cancelled(a)
    /\ UNCHANGED <<away, actors, timerVars, owner, accepted, queue, idle, worker,
                   slots, closeVars>>

EndReap(a) ==
    /\ reap[a] = "stopping" /\ worker[a] = "dead"
    /\ reap' = [reap EXCEPT ![a] = "done"]
    /\ UNCHANGED <<away, actors, timerVars, actorVars, slots, closeVars>>

\* Assistant.shutdown goes through its snapshot in the order the actors were
\* spawned.
First(S) == CHOOSE a \in S : \A b \in S : a <= b

\* Drain the first actor of S; with none left, empty the pool and return.
ShutdownRound(S) ==
    /\ todo' = S
    /\ \/ /\ S = {}
          /\ closing' = "done"
          /\ actors' = [t \in Threads |-> NoActor]
          /\ UNCHANGED cancel
       \/ /\ S # {} /\ ~ Settled(First(S))
          /\ closing' = "draining"
          /\ UNCHANGED <<actors, cancel>>
       \/ /\ S # {} /\ Settled(First(S))
          /\ closing' = "stopping"
          /\ cancel' = Cancelled(First(S))
          /\ UNCHANGED actors

Shutdown ==
    /\ closing = "none"
    /\ timers' = [t \in Threads |-> "none"]
    /\ known' = {a \in Actors : owner[a] # NoThread}
    /\ ShutdownRound({actors[t] : t \in Threads} \ {NoActor})
    /\ UNCHANGED <<away, orphans, reapsDue, owner, accepted, queue, idle, worker,
                   reap, slots>>

\* Mutant: shutdown waits for the drain without a timeout.
EndShutdownDrainSettled ==
    /\ closing = "draining" /\ Settled(First(todo))
    /\ closing' = "stopping"
    /\ cancel' = Cancelled(First(todo))
    /\ UNCHANGED <<away, actors, timerVars, owner, accepted, queue, idle, worker,
                   reap, slots, todo, known>>

\* Mutant: an actor whose drain times out is not shut down.
EndShutdownDrainSkips ==
    /\ closing = "draining"
    /\ \/ /\ Settled(First(todo))
          /\ closing' = "stopping"
          /\ cancel' = Cancelled(First(todo))
          /\ UNCHANGED <<actors, todo>>
       \/ /\ ~ Settled(First(todo))
          /\ ShutdownRound(todo \ {First(todo)})
    /\ UNCHANGED <<away, timerVars, owner, accepted, queue, idle, worker, reap, slots,
                   known>>

EndShutdownDrain ==
    /\ closing = "draining"
    /\ closing' = "stopping"
    /\ cancel' = Cancelled(First(todo))
    /\ UNCHANGED <<away, actors, timerVars, owner, accepted, queue, idle, worker,
                   reap, slots, todo, known>>

NextActor ==
    /\ closing = "stopping" /\ worker[First(todo)] = "dead"
    /\ ShutdownRound(todo \ {First(todo)})
    /\ UNCHANGED <<away, timerVars, owner, accepted, queue, idle, worker, reap, slots,
                   known>>

-----------------------------------------------------------------------------
(* The worker of actor a.                                                  *)

TakeNext(a) ==
    /\ queue[a] > 0
    /\ queue' = [queue EXCEPT ![a] = @ - 1]
    /\ idle' = [idle EXCEPT ![a] = FALSE]
    /\ worker' = [worker EXCEPT ![a] = "slot"]

Take(a) ==
    /\ worker[a] = "get" /\ ~ cancel[a]
    /\ TakeNext(a)
    /\ UNCHANGED <<away, actors, timerVars, owner, accepted, cancel, reap, slots,
                   closeVars>>

\* `async with self._global_semaphore` around the call of the cortex registry
Acquire(a) ==
    /\ worker[a] = "slot" /\ ~ cancel[a] /\ slots > 0
    /\ slots' = slots - 1
    /\ worker' = [worker EXCEPT ![a] = "call"]
    /\ UNCHANGED <<away, actors, timerVars, owner, accepted, queue, idle, cancel,
                   reap, closeVars>>

\* The call fails before it asks for a slot: there is no registry, or the prompt
\* cannot be rendered.
FailEarly(a) ==
    /\ worker[a] = "slot"
    /\ worker' = [worker EXCEPT ![a] = "send"]
    /\ UNCHANGED <<away, actors, timerVars, owner, accepted, queue, idle, cancel, reap,
                   slots, closeVars>>

\* The registry returns or raises, before its worker sees a cancellation or not.
Release(a) ==
    /\ worker[a] = "call"
    /\ slots' = slots + 1
    /\ worker' = [worker EXCEPT ![a] = "send"]
    /\ UNCHANGED <<away, actors, timerVars, owner, accepted, queue, idle, cancel,
                   reap, closeVars>>

\* The event is over: the worker takes the next one at once if there is one, and
\* suspends with its idle marker set if not.
Finish(a) ==
    /\ worker[a] = "send" /\ ~ cancel[a]
    /\ \/ TakeNext(a)
       \/ /\ queue[a] = 0
          /\ worker' = [worker EXCEPT ![a] = "get"]
          /\ idle' = [idle EXCEPT ![a] = TRUE]
          /\ UNCHANGED queue
    /\ UNCHANGED <<away, actors, timerVars, owner, accepted, cancel, reap, slots,
                   closeVars>>

\* The fallback after CortexUnavailable cannot be sent.
Crash(a) ==
    /\ worker[a] = "send" /\ ~ cancel[a]
    /\ worker' = [worker EXCEPT ![a] = "dead"]
    /\ UNCHANGED <<away, actors, timerVars, owner, accepted, queue, idle, cancel,
                   reap, slots, closeVars>>

\* Mutant: the slot is released after the call, outside of `async with`.
SlotsAfterCancelLeak(a) == slots
SlotsAfterCancel(a) == IF worker[a] = "call" THEN slots + 1 ELSE slots

\* CancelledError ends the worker; a call in progress gives its slot back.
EndCancelled(a) ==
    /\ cancel[a]
    /\ cancel' = [cancel EXCEPT ![a] = FALSE]
    /\ worker' = [worker EXCEPT ![a] = "dead"]
    /\ slots' = SlotsAfterCancel(a)
    /\ UNCHANGED <<away, actors, timerVars, owner, accepted, queue, idle, reap,
                   closeVars>>

\* Mutant: the worker suppresses its cancellation wherever it meets it.
IgnoreCancelAnywhere(a) ==
    /\ worker[a] \in {"slot", "call", "send"} /\ cancel[a]
    /\ cancel' = [cancel EXCEPT ![a] = FALSE]
    /\ UNCHANGED <<away, actors, timerVars, owner, accepted, queue, idle, worker, reap,
                   slots, closeVars>>

\* A cancellation that meets the cleanup of the race is suppressed with the
\* timer's own: the worker goes on, and whoever awaits its end waits for good.
IgnoreCancel(a) ==
    /\ worker[a] = "send" /\ cancel[a]
    /\ cancel' = [cancel EXCEPT ![a] = FALSE]
    /\ UNCHANGED <<away, actors, timerVars, owner, accepted, queue, idle, worker, reap,
                   slots, closeVars>>

Worker(a) == Take(a) \/ Acquire(a) \/ FailEarly(a) \/ Release(a) \/ Finish(a)
             \/ Crash(a) \/ EndCancelled(a) \/ IgnoreCancel(a)
Reaper(a) == EndReapDrain(a) \/ EndReap(a)
Closer    == Shutdown \/ EndShutdownDrain \/ NextActor

-----------------------------------------------------------------------------

Next ==
    \/ \E t \in Threads : OnMessage(t)
    \/ \E p \in Persons :
          OnParticipantLeft(p) \/ OnParticipantJoined(p) \/ FireTimer(p) \/ RunReap(p)
    \/ \E a \in Actors : Worker(a) \/ Reaper(a)
    \/ Closer

Spec == Init /\ [][Next]_vars

\* The loop runs what is ready, armed timers fire, a drain returns or times out,
\* the cortex registry and the session return or raise.  Slots are handed out
\* first come, first served.
Fairness ==
    /\ \A a \in Actors : WF_vars(Worker(a)) /\ SF_vars(Acquire(a)) /\ WF_vars(Reaper(a))
    /\ \A p \in Persons : WF_vars(FireTimer(p)) /\ WF_vars(RunReap(p))
    /\ WF_vars(EndShutdownDrain \/ NextActor)

FairSpec == Spec /\ Fairness

-----------------------------------------------------------------------------
(* Properties.                                                             *)

\* An actor the pool routes to is the one of its thread, no reap task has it, and
\* until shutdown begins nobody has told its worker to end: no message is handed to an
\* actor that is being drained for its reap.  (Its worker may have crashed.)
PoolConsistent ==
    \A t \in Threads : LET a == actors[t] IN
        a # NoActor => /\ owner[a] = t /\ reap[a] = "none"
                       /\ cancel[a] => closing # "none"

\* A reap timer never outlives its thread's actor in _reap_timers, so the next
\* actor of the thread does not inherit a timer (shutdown empties both).
TimersMatchActors ==
    \A p \in Persons : timers[p] # "none" /\ closing = "none" => actors[p] # NoActor

\* Cancelled, crashed and finished cortex calls all give their slot back, and
\* every slot that is taken belongs to a call in progress.
SlotsConserved == slots + Cardinality({a \in Actors : worker[a] = "call"}) = Slots

\* A worker that still runs is reachable: its actor is in the pool or in the hands
\* of a reap task that will end it, as long as shutdown has not begun.
NoStrayWorker ==
    \A a \in Actors : worker[a] \in Alive /\ closing = "none" =>
        \/ actors[owner[a]] = a
        \/ reap[a] \in {"draining", "stopping"}

\* Once shutdown has begun, a worker that was spawned before is in what shutdown has
\* left to do or in the hands of a reap task, messages, leaves and reaps meanwhile
\* notwithstanding: the actors that shutdown misses ("Drain every actor in the pool,
\* then cancel its worker") are those spawned after it took its snapshot.
ShutdownMissesOnlyNewcomers ==
    closing # "none" => \A a \in known : worker[a] \in Alive =>
        a \in todo \/ reap[a] \in {"draining", "stopping"}

\* As long as shutdown has not begun, the actor of a sender who left, and was neither
\* announced nor heard of since, has a timer that will fire or a reap task that will
\* run: no leave, rejoin, second leave or reap of an earlier actor of the sender drops
\* the last of them.  (A message does, whoever has left; no timer follows it.)
AbsentHaveReapDue ==
    \A p \in away : actors[p] # NoActor /\ closing = "none" =>
        timers[p] = "armed" \/ reapsDue[p] > 0

\* An actor that a reap task has taken is never routed to again, is handed no
\* further message, and is not given back.
ReapedGetNoMore ==
    [][\A a \in Actors : reap[a] # "none" =>
          /\ reap'[a] # "none"
          /\ queue'[a] <= queue[a]
          /\ \A t \in Threads : actors'[t] # a]_vars

\* The worker that shutdown awaits ignored the cancellation it was sent.
Ignored == closing = "stopping" /\ worker[First(todo)] # "dead" /\ ~ cancel[First(todo)]

\* The actor of a sender who left and is not heard of again leaves the pool, by a reap
\* or by a shutdown (which drops the timers, so it has to come to its end).
AbsentAreReaped ==
    \A p \in Persons : p \in away /\ actors[p] # NoActor
                           ~> p \notin away \/ actors[p] = NoActor \/ Ignored

\* A shutdown that has begun returns, whatever workers, reap tasks, messages and
\* leaves do meanwhile, unless a worker swallows its cancellation.
ShutdownReturns == closing # "none" ~> closing = "done" \/ Ignored

\* Actor a as a ThreadWorker; one that is not spawned yet is in its initial state.
Spawned(a) == owner[a] # NoThread
Stage(a) == IF worker[a] \in {"slot", "call"} THEN "busy"
            ELSE IF Spawned(a) THEN worker[a] ELSE "get"

Thread(a) == INSTANCE ThreadWorker
             WITH waiting <- IF Spawned(a) THEN queue[a] ELSE 1, marked <- idle[a],
                  stage <- Stage(a), cancelled <- cancel[a]

\* Each actor of the pool is the worker that ChatThreadActor implements: routing,
\* leaves, reap tasks and shutdown together never do to an actor what the code of
\* one actor does not allow (\A a : Thread(a)!Spec, spelled out for TLC).
ActorsAreWorkers ==
    /\ \A a \in Actors : Thread(a)!Init
    /\ [][\A a \in Actors : [Thread(a)!Next]_(Thread(a)!vars)]_vars

-----------------------------------------------------------------------------
(* What the documentation says and the code does not do.                   *)

\* "Strict serialization within thread": one worker serves a thread.  A reap task
\* takes the actor out of the pool and then drains it for up to five seconds; a
\* message of the same sender meanwhile spawns a second actor.
OneWorkerPerThread ==
    \A a, b \in Actors :
        worker[a] \in Alive /\ worker[b] \in Alive /\ owner[a] = owner[b] => a = b
=============================================================================
