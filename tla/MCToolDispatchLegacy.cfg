SPECIFICATION Spec
CONSTANTS
    Runtimes = {r1}
    BatchSize = 2
    AskCalls = {1}
    RejectCalls = {}
    StreamLength = 2
    MaxAsks = 1
    MaxProposals = 2
    MaxHead = 40
INVARIANTS
    EffectAtMostOnce
