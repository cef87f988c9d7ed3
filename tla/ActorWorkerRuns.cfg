SPECIFICATION Spec
CONSTANTS
    shutdowner = shutdowner
    QueueDepth = 1
    MaxEvents = 2
    Stoppers = {shutdowner}
INVARIANTS
    WorkerRunsUntilCancelled
\* An actor with nothing to do waits in queue.get() for ever.
CHECK_DEADLOCK FALSE
