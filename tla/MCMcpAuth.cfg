SPECIFICATION Spec
CONSTANTS
    q1 = q1
    q2 = q2
    curityIdsvr = curityIdsvr
    foreign = foreign
    Questions = {q1, q2}
    Users = {"alice"}
    Trusted = {curityIdsvr}
    Foreign = {foreign}
    MaxRequests = 2
    MaxChanges = 2
SYMMETRY QuestionSymmetry
INVARIANTS
    ExchangesWithTrusted
    ReacquiredFresh
    NonceAloneNeverFails
CHECK_DEADLOCK FALSE
