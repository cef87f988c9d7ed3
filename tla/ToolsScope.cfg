SPECIFICATION Spec
CONSTANTS
    alice = alice
    bob = bob
    n1 = n1
    n2 = n2
    weekly = weekly
    other = other
    c1 = c1
    Public = Public
    Owner = Owner
    Whole = Whole
    Nothing = Nothing
    Persons = {alice, bob}
    Displays = {n1, n2}
    Series = {weekly, other}
    Profiles <- MeetingProfiles
    Calls = {c1}
    MaxMessages = 2
INVARIANT
    SearchStaysInSeries
\* A meeting ends.
CHECK_DEADLOCK FALSE
