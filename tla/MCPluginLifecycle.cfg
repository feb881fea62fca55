SPECIFICATION Spec
CONSTANTS
    s1 = s1
    s2 = s2
    d1 = d1
    d2 = d2
    i1 = i1
    w1 = w1
    w2 = w2
    r1 = r1
    None = None
    Torn = Torn
    Orphan = Orphan
    Permits = {s1, s2}
    Deliveries = {d1}
    Invocations = {i1}
    Writes = {w1, w2}
    Prior <- MCPrior
    Reads = {r1}
    Expected <- MCExpected
    QueueCapacity = 1
    MaxAttempts = 2
    MaxFrames = 3
    MaxFaults = 0
INVARIANTS
    LifecycleAgrees
