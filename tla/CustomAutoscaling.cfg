SPECIFICATION FairSpec
CONSTANTS
    UpscaleTicks = 1
    DownscaleTicks = 2
    Unreadable <- NoTarget
    PollInterval = 3
    Deployments <- EachPolicy
    ReplicaIds <- MCReplicas
    Uses <- EachSide
    QueueDepths <- Depths
    MaxBusy = 3
    PushTicks = 1
    Published = {0, 2, 9}
    MaxFaults = 2
INVARIANTS TypeOK WishHonouredInTime
PROPERTIES PressureMovesForCause QueueMovesForCause PressureFillsUp WakesUp
