SPECIFICATION Spec
CONSTANTS
    Conts = {c1, c2, c3}
    Approvals = {c1}
    Deferred = {c2}
    Callers = {u1, u2}
    LookupLimit = 2
    NoCont = NoCont
    NoCaller = NoCaller
SYMMETRY Symmetry
INVARIANTS
    TypeOK
PROPERTIES
    ImplementsResumeOnce
    ResumedByItsOwnKind
