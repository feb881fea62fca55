SPECIFICATION Spec
CONSTANTS
    Schedules = {every, watch}
    OneShots = {}
    Intervals = {every}
    Deferred = {watch}
    Triggers = {every}
    MaxTime = 1
    MaxEvents = 2
    MaxUpserts = 1
    PollLimit = 1
    UserOutcomes = {"responded"}
    MaxHistory = 4
    Nobody = Nobody
INVARIANTS
    TypeOK
    NoOccurrenceSkipped
    DispatchedOnce
    SuccessHasEvidence
    ReconciliationsAgree
