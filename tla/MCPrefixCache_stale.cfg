CONSTANTS
    pre = pre
    a = a
    b = b
    Seqs <- MCSeqs
    CacheId = pre
    NumBlocks = 6
    G = 3
    Width = 0
    MaxNew = 2
    MaxAlloc = 6
    Options <- MCCompact
    MaxCopies = 3
SPECIFICATION PrefixSpec
CHECK_DEADLOCK FALSE
INVARIANT ReadsPrefix
