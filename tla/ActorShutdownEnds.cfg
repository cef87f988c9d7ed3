SPECIFICATION FairSpec
CONSTANTS
    shutdowner = shutdowner
    QueueDepth = 1
    MaxEvents = 1
    Stoppers = {shutdowner}
PROPERTIES
    ShutdownEnds
\* An actor with nothing to do waits in queue.get() for ever.
CHECK_DEADLOCK FALSE
