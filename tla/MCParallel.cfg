SPECIFICATION FairSpec
CONSTANTS
    Region <- MCRegion
    MaxParallelism = 2
    MaxSteps = 9
    Required = {1}
    MinSuccesses = 1
    FailurePolicy = "wait_required"
    MaxCrashes = 1
    MaxCancels = 1
INVARIANTS
    TypeOK
    EffectOnce
    CompletedHappened
PROPERTIES
    CancelledDispatchesNothing
    ImplementsForkJoin
    DriveReturns
    Settles
CHECK_DEADLOCK FALSE
