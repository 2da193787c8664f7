SPECIFICATION FairShimSpec
CONSTANTS
    bound = bound
    plain = plain
    inspect = inspect
    p1 = p1
    p2 = p2
    NoProof = NoProof
    Workers = {1, 2}
    Proofs = {p1, p2}
    Targets <- MCTargets
    ProofFor <- MCProofFor
    Callers = {bound, plain}
    Bound = {bound}
    Auds = {inspect}
    MaxAge = 1
    MaxEntries = 1
    MaxIat = 1
    MaxTime = 3
    Life = 3
    Ttl = 1
    Skew = 1
    CacheMax = 1
    MaxLatency = 1
INVARIANTS
    ProofOfPossession
    AnswerIsOwn
    AnswerAlive
CHECK_DEADLOCK FALSE
PROPERTY EveryCallAnswered
