SPECIFICATION FairSpec
CONSTANTS
    Requests <- MCRequests
    Streaming <- MCStreaming
    FAQ <- MCFAQ
    Mentions <- MCMentions
    MaxChunks = 3
    MaxFaults = 2
INVARIANTS TypeOK InOrder DoneMeansWhole
PROPERTY EveryAskEnds
CHECK_DEADLOCK FALSE
