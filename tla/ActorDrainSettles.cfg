SPECIFICATION Spec
CONSTANTS
    reaper = reaper
    QueueDepth = 1
    MaxEvents = 2
    Stoppers = {reaper}
PROPERTIES
    DrainSettles
\* An actor with nothing to do waits in queue.get() for ever.
CHECK_DEADLOCK FALSE
