----------------------------- MODULE ThreadWorker -----------------------------
(***************************************************************************)
(* The worker of one thread, as the pool relies on it (actor.py seen from  *)
(* assistant.py): how many events wait, whether the idle marker is set,    *)
(* whether the worker waits for an event, for cortex or for the session,   *)
(* and what becomes of its cancellation.  ChatThreadActor implements it    *)
(* with its race, timers and cleanup; each actor of AssistantPool is one.  *)
(***************************************************************************)
EXTENDS Naturals

CONSTANT QueueDepth     \* AssistantConfig.per_thread_queue_depth

VARIABLES
    waiting,    \* how many events are on the queue
    marked,     \* the idle marker is set
    stage,      \* what the worker waits for, or that its task has ended
    cancelled   \* a cancellation is on its way to the worker

vars == <<waiting, marked, stage, cancelled>>

\* An actor is spawned with its first event on the queue.
Init ==
    /\ waiting = 1
    /\ marked = FALSE
    /\ stage = "get"
    /\ cancelled = FALSE

\* A message clears the marker, accepted or refused.
Offer ==
    /\ marked' = FALSE
    /\ \/ waiting < QueueDepth /\ waiting' = waiting + 1
       \/ waiting >= QueueDepth /\ UNCHANGED waiting
    /\ UNCHANGED <<stage, cancelled>>

\* A leave sets it, a rejoin clears it, whatever the worker does.
Mark ==
    /\ marked' \in BOOLEAN
    /\ UNCHANGED <<waiting, stage, cancelled>>

Serve ==
    /\ waiting > 0
    /\ waiting' = waiting - 1
    /\ marked' = FALSE
    /\ stage' = "busy"

Take ==
    /\ stage = "get" /\ ~ cancelled
    /\ Serve
    /\ UNCHANGED cancelled

\* The cortex call is over: answered, failed, or cancelled.
CallEnds ==
    /\ stage = "busy"
    /\ stage' = "send"
    /\ UNCHANGED <<waiting, marked, cancelled>>

\* The worker goes on, and marks itself idle only when nothing waits.
Finish ==
    /\ stage = "send" /\ ~ cancelled
    /\ \/ Serve
       \/ /\ waiting = 0
          /\ marked' = TRUE
          /\ stage' = "get"
          /\ UNCHANGED waiting
    /\ UNCHANGED cancelled

\* The worker ends by itself, on the answer it could not send.
Crash ==
    /\ stage = "send" /\ ~ cancelled
    /\ stage' = "dead"
    /\ UNCHANGED <<waiting, marked, cancelled>>

Cancel ==
    /\ stage # "dead"
    /\ cancelled' = TRUE
    /\ UNCHANGED <<waiting, marked, stage>>

EndCancelled ==
    /\ cancelled
    /\ cancelled' = FALSE
    /\ stage' = "dead"
    /\ UNCHANGED <<waiting, marked>>

\* A cancellation can be swallowed once the call is over, and only then.
Ignore ==
    /\ cancelled /\ stage = "send"
    /\ cancelled' = FALSE
    /\ UNCHANGED <<waiting, marked, stage>>

Next ==
    \/ Offer \/ Mark \/ Take \/ CallEnds \/ Finish
    \/ Crash \/ Cancel \/ EndCancelled \/ Ignore

Spec == Init /\ [][Next]_vars
=============================================================================
