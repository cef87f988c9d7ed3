SPECIFICATION Spec
CONSTANTS
    alice = alice
    Public = Public
    Persons = {alice}
    QueueDepth = 1
    Slots = 1
    MaxActors = 3
    MaxMessages = 3
    MaxReaps = 1
INVARIANTS
    OneWorkerPerThread
\* After the meeting nothing happens any more.
CHECK_DEADLOCK FALSE
