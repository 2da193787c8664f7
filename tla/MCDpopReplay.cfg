SPECIFICATION Spec
CONSTANTS
    w1 = w1
    w2 = w2
    p1 = p1
    p2 = p2
    p3 = p3
    t1 = t1
    t2 = t2
    Workers = {w1, w2}
    Proofs = {p1, p2, p3}
    Targets = {t1, t2}
    ProofFor <- MCProofFor
    MaxAge = 1
    MaxEntries = 2
    MaxIat = 2
    MaxTime = 2
SYMMETRY Symmetry
INVARIANTS
    NoReplayInWindow
    EvictsOnlyWhenFull
    NoFalseReplay
CHECK_DEADLOCK FALSE
