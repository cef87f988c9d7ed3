SPECIFICATION FairSpec
CONSTANTS
    shutdowner = shutdowner
    QueueDepth = 2
    MaxEvents = 3
    Stoppers = {shutdowner}
INVARIANTS
    TypeOK
    NoOrphanTasks
    AwaitsEnd
    HistoryWellFormed
    NoSilentLoss
PROPERTIES
    OverIsOver
    ImplementsService
    ImplementsWorker
    EventuallyServed
    CancelHonoured
\* An actor with nothing to do waits in queue.get() for ever.
CHECK_DEADLOCK FALSE
