CONSTANTS
    p1 = p1
    p2 = p2
    p3 = p3
    a1 = a1
    s1 = s1
    s2 = s2
    NoRequest = NoRequest
    NoSession = NoSession
    Requests <- MCRequests
    Passes <- MCPasses
    Sessions <- MCSessions
    MaxTurns = 5
    TurnCap = 3
    SpanLimit = 2
    EveryN = 2
    MaxDelta = 1
    Bound = 2
    RawDeltas <- MCRawDeltas
    ReadsMayFail = FALSE
    Sequential = TRUE
SPECIFICATION Spec
SYMMETRY PassSymmetry
INVARIANTS TypeOK ReflectedAtMostOnce NoLostDelta
PROPERTIES BoundedPassDelta ImplementsConsolidation
CHECK_DEADLOCK FALSE
