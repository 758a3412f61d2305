CONSTANTS
    pre = pre
    a = a
    b = b
    Seqs <- MCSeqs
    CacheId = pre
    NumBlocks = 4
    G = 2
    Width = 0
    MaxNew = 2
    MaxAlloc = 6
    Options <- MCDefault
    MaxCopies = 3
SPECIFICATION PrefixSpec
CHECK_DEADLOCK FALSE
INVARIANTS ReadsPrefix StaysPinned
