CONSTANTS
    NumBlocks = 6
    BlockTokens = 2
    NReq = 3
    Requests <- MCPlain
    PrefixLen <- MCNoPrefix
    MaxBatch = 3
    MaxPreempts = 1
    Options <- MCCopyback
SPECIFICATION SimSpec
INVARIANT OracleNeverShort
