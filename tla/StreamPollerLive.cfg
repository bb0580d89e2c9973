SPECIFICATION FairSpec
CONSTANTS
    m1 = m1
    m2 = m2
    m3 = m3
    p1 = p1
    Messages = {m1, m2}
    Poison = {}
    MaxMessages = 2
    MaxQueued = 1
    Slots = 1
    CounterCap = 2
    Faults <- Deliveries
    MaxFaults = 2
PROPERTIES EveryMessageCompletes DrainEnds
