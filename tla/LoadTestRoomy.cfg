SPECIFICATION Spec
CONSTANTS
    r1 = r1
    r2 = r2
    r3 = r3
    r4 = r4
    Requests = {r1, r2, r3, r4}
    Concurrency = 2
    MaxTokens = 2
    MaxRetries = 1
    Slots = 1
    MaxQueued = 2
    MaxFaults = 4
INVARIANT OnlyFaultsFail
SYMMETRY Interchangeable
CHECK_DEADLOCK FALSE
