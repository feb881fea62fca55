SPECIFICATION Spec
CONSTANTS
    Region <- MCSchedule
    MaxParallelism = 1
    MaxSteps = 12
    Required = {1}
    MinSuccesses = 1
    FailurePolicy = "wait_required"
    MaxCrashes = 0
    MaxCancels = 1
PROPERTY CancelledDispatchesNothing
CHECK_DEADLOCK FALSE
