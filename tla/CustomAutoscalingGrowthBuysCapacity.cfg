SPECIFICATION Spec
CONSTANTS
    UpscaleTicks = 4
    DownscaleTicks = 6
    Unreadable <- NoTarget
    PollInterval = 3
    Deployments <- OnlyQueue
    ReplicaIds <- MCReplicas
    Uses <- EachSide
    QueueDepths <- Rising
    MaxBusy = 1
    PushTicks = 2
    Published = {2}
    MaxFaults = 1
INVARIANT GrowthBuysCapacity
