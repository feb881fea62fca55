SPECIFICATION Spec
CONSTANTS
    Runtimes = {r1, r2}
    BatchSize = 3
    AskCalls = {1}
    RejectCalls = {2}
    StreamLength = 3
    MaxAsks = 1
    MaxProposals = 2
    MaxHead = 40
SYMMETRY Symmetry
INVARIANTS
    TypeOK
    ProposalRunsOnce
    EffectOnlyWithConsent
    JournalReplays
    StreamProjectedOnce
    ConversationPaired
    DecisionMatchesGate
