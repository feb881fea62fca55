SPECIFICATION FairSpec
CONSTANTS
    Tasks <- MCTasks
    Limits <- MCLimits
    MaxFaults = 1
INVARIANTS
    TypeOK
    OneSessionPerTask
    InFlightBounded
    VerdictsTrue
PROPERTIES
    ChildEndsOnce
    Settles
CHECK_DEADLOCK FALSE
