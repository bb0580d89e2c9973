SPECIFICATION FairSpec
CONSTANTS
    Replicas = {"r1", "r2"}
    Warmups = 2
    PrefixTokens <- MCPrefixTokens
    QuestionTokens = 1
    EXPORT_WAIT_S = 3
    ExportPeriod = 2
    MaxFaults = 1
INVARIANTS TypeOK VerdictIsRight MeasuresThePair PairIsCold
PROPERTY RunEnds
CHECK_DEADLOCK FALSE
