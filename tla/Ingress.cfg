SPECIFICATION Spec
SYMMETRY UserSymmetry
CONSTANTS
    alice = alice
    bob = bob
    u1 = u1
    u2 = u2
    None = None
    Public = Public
    Persons = {alice, bob}
    Users = {u1, u2}
    Listed = {alice}
    Confidences = {None, 84, 85}
    MinConfidence = 85
    MayMention = {alice, None}
    Window = 2
    QueueDepth = 1
    MaxMessages = 3
    MaxTime = 3
INVARIANTS
    TypeOK
    RepliesStayOnTheirPath
    ThreadsDoNotMix
    PublicPostsBounded
\* When the bounds are reached nothing happens any more.
CHECK_DEADLOCK FALSE
