SPECIFICATION Spec
CONSTANTS
    tab1 = tab1
    tab2 = tab2
    Users = {"alice", "bob"}
    Tabs = {tab1}
    Orphans = {}
    o1 = o1
    Caching = TRUE
    OpsAcrs = {"mfa", "phr"}
    MaxChanges = 1
    MaxAsks <- AskBound
INVARIANTS
    ChallengeNotDowngraded
CHECK_DEADLOCK FALSE
