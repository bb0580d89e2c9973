SPECIFICATION FairSpec
CONSTANTS
    j1 = j1
    j2 = j2
    Jobs = {j1, j2}
    Withdrawing = {j2}
    Replicas = 1
    MaxRetries = 1
    TimeoutS = 3
    IntervalS = 2
    RequestS = 1
    MaxFaults = 2
INVARIANTS
    PollOverrunBounded
    FailuresAreKept
PROPERTIES
    TimeoutIsNews
    KeepsTickets
    AcceptedJobsEnd
    PollEnds
CHECK_DEADLOCK FALSE
