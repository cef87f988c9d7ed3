SPECIFICATION FairSpec
CONSTANTS
    a = a
    b = b
    c = c
    Persons = {a, b, c}
    Stamps <- MCStamps
    MaxNotes = 2
INVARIANTS
    TypeOK
    OfferIsBest
    NoBindingWithoutConsent
PROPERTY
    RatificationEnds
\* The matcher ends.
CHECK_DEADLOCK FALSE
