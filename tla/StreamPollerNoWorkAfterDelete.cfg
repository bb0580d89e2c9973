SPECIFICATION Spec
CONSTANTS
    m1 = m1
    m2 = m2
    m3 = m3
    p1 = p1
    Messages = {m1, m2, m3}
    Poison = {}
    MaxMessages = 3
    MaxQueued = 1
    Slots = 1
    CounterCap = 4
    Faults = {}
    MaxFaults = 0
SYMMETRY GoodSymmetry
PROPERTY NoWorkAfterDelete
CHECK_DEADLOCK FALSE
