SPECIFICATION FairSpec
CONSTANTS
    r1 = r1
    r2 = r2
    r3 = r3
    r4 = r4
    Requests = {r1, r2, r3}
    Concurrency = 2
    MaxTokens = 2
    MaxRetries = 1
    Slots = 2
    MaxQueued = 1
    MaxFaults = 2
INVARIANTS TypeOK PermitsAccounted FiguresAgree
PROPERTY TestEnds
CHECK_DEADLOCK FALSE
