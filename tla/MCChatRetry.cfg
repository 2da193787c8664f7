SPECIFICATION Spec
CONSTANTS
    read = read
    write = write
    blank = blank
    Reads = {read}
    Writes = {write}
    DefaultPrompt = read
    Blank = blank
    Panels = {"svids", "obo"}
    MaxSends = 2
    MaxLoads = 1
INVARIANTS
    RetriesChallenged
CHECK_DEADLOCK FALSE
