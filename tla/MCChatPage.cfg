SPECIFICATION FairSpec
CONSTANTS
    read = read
    write = write
    blank = blank
    Reads = {read}
    Writes = {write}
    DefaultPrompt = read
    Blank = blank
    Panels = {"svids", "obo"}
    MaxSends = 2
    MaxLoads = 1
INVARIANTS
    AnswerIsLastAsked
    RetryFaithful
    PanelFollowsAnswer
PROPERTIES
    SpinnersStop
CHECK_DEADLOCK FALSE
