SPECIFICATION FairSpec
CONSTANTS
    tab1 = tab1
    tab2 = tab2
    Users = {"alice", "bob"}
    Tabs = {tab1, tab2}
    Orphans = {o1}
    o1 = o1
    Caching = TRUE
    OpsAcrs = {"mfa", "phr"}
    MaxChanges = 1
    MaxAsks <- AskBound
INVARIANTS
    StepUpHelps
    OwnToken
    ChangesAreAuthorized
    NoFalseSuccess
    ProbeTruthful
    ToolsetsClosed
    LoopChallengeWins
PROPERTIES
    ImplementsDialogue
CHECK_DEADLOCK FALSE
