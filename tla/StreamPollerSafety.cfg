SPECIFICATION Spec
CONSTANTS
    m1 = m1
    m2 = m2
    m3 = m3
    p1 = p1
    Messages = {m1, m2, p1}
    Poison = {p1}
    MaxMessages = 2
    MaxQueued = 1
    Slots = 1
    CounterCap = 2
    Faults <- AllFaults
    MaxFaults = 1
SYMMETRY GoodSymmetry
INVARIANTS TypeOK DeletedOnlyAfterStored
PROPERTIES InFlightForwardedOnce Consumes
CHECK_DEADLOCK FALSE
