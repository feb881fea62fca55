SPECIFICATION FairSpec
CONSTANTS
    Tasks <- MCSingle
    Limits <- MCSingle
    MaxFaults = 1
PROPERTY DispatchedCancellationConcludes
CHECK_DEADLOCK FALSE
