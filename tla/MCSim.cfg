CONSTANTS
    NumBlocks = 6
    BlockTokens = 2
    NReq = 4
    Requests <- MCShared
    PrefixLen <- MCPrefixLen
    MaxBatch = 3
    MaxPreempts = 1
    Options <- MCOptions
SPECIFICATION FairSimSpec
INVARIANTS PoolBalance TablesCover SharedAreFull OnePlace CompletedExactly OracleRoom GateSuffices NoCrash
PROPERTIES PreemptedFirst DropsUnplaceable Terminates
