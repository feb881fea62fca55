SPECIFICATION Spec
CONSTANTS
    Writers = {w1, w2}
    EventIds = {e1, e2, e3, e4}
    Labels = {l1, l2}
    Durabilities = {"buffered", "data"}
    MaxFrames = 4
    NoEvent = NoEvent
    NoWriter = NoWriter
    Garbage = Garbage
SYMMETRY Symmetry
INVARIANTS
    TypeOK
    ChainIntact
    DurableAcksSurvive
    NoLostUpdate
PROPERTIES
    OnlyPowerLossRemovesFrames
