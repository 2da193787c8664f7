SPECIFICATION Spec
CONSTANTS
    t1 = t1
    t2 = t2
    t3 = t3
    jwt = jwt
    NoTrace = NoTrace
    Traces = {t1, t2, t3}
    Headers <- OneJwt
    Bodies <- OneJwt
    MaxTraces = 2
    MaxCalls = 5
SYMMETRY TraceSymmetry
INVARIANTS
    NumbersFollowSending
    RefsResolve
    ExpandedOnce
CHECK_DEADLOCK FALSE
