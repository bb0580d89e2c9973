SPECIFICATION FairSpec
CONSTANTS
    Users <- MCUsers
    Candidates <- MCCandidates
    ItemIndex <- MCItemIndex
    Score <- MCScore
    Requests <- FourRequests
    RequestOf <- MCRequestOf
    Unbatched = {"q4"}
    Replicas = {"r1"}
    BatchSizes = {1, 2, 3}
    DefaultBatchSize = 3
    OtherScore <- MCOtherScore
    MaxFaults = 2
INVARIANTS OwnAnswer InOnePlace
PROPERTY EveryCallEnds
CHECK_DEADLOCK FALSE
