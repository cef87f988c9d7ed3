SPECIFICATION FairSpec
CONSTANTS
    alice = alice
    Public = Public
    Persons = {alice}
    QueueDepth = 1
    Slots = 1
    MaxActors = 2
    MaxMessages = 3
    MaxReaps = 2
INVARIANTS
    TypeOK
    PoolConsistent
    TimersMatchActors
    SlotsConserved
    NoStrayWorker
    ShutdownMissesOnlyNewcomers
    AbsentHaveReapDue
PROPERTIES
    ActorsAreWorkers
    ReapedGetNoMore
    AbsentAreReaped
    ShutdownReturns
\* After the meeting nothing happens any more.
CHECK_DEADLOCK FALSE
