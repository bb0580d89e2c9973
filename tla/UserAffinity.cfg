SPECIFICATION FairSpec
CONSTANTS
    Users <- MCUsers
    NoUser = "none"
    Requests <- FewRequests
    UserOf <- FewUserOf
    ReplicaIds = {1, 2, 3}
    InitialReplicas <- TwoReplicas
    Crc32 <- MCCrc32
    MaxOngoing = 2
    ImbalanceThreshold = 1
    MaxUpdates = 1
    MaxFaults = 1
INVARIANTS TypeOK OngoingExact CacheIsWarm OneReplicaUnlessExcused
PROPERTY EveryRequestEnds
CHECK_DEADLOCK FALSE
