SPECIFICATION Spec
CONSTANTS
    login1 = login1
    login2 = login2
    alice = alice
    carol = carol
    Sessions = {login1, login2}
    Users = {alice, carol}
    MaxFlows = 2
    MaxExtras = 1
    MaxWalks <- WalkBound
    MaxSnapshots = 1
SYMMETRY LoginSymmetry
INVARIANTS
    TopIsThisSession
    LeafOfItsFlow
    SnapshotOfItsQuestion
    LedgerFaithful
    WholeChain
CHECK_DEADLOCK FALSE
