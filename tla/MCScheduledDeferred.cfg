SPECIFICATION Spec
CONSTANTS
    Schedules = {once, watch}
    OneShots = {once}
    Intervals = {}
    Deferred = {watch}
    Triggers = {}
    MaxTime = 1
    MaxEvents = 2
    MaxUpserts = 1
    PollLimit = 2
    UserOutcomes = {}
    MaxHistory = 4
    Nobody = Nobody
INVARIANTS
    DeferredTurnRunsOnce
