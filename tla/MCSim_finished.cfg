CONSTANTS
    NumBlocks = 4
    BlockTokens = 2
    NReq = 3
    Requests <- MCPlain
    PrefixLen <- MCNoPrefix
    MaxBatch = 3
    MaxPreempts = 1
    Options <- MCVllm
SPECIFICATION SimSpec
INVARIANT FinishedRelease
