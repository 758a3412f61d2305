CONSTANTS
    a = a
    b = b
    c = c
    Seqs <- MCSeqs
    NumBlocks = 3
    Width = 2
    MaxNew = 2
    MaxAlloc = 4
    Policies = {"paged", "random"}
SPECIFICATION FLSpec
CHECK_DEADLOCK FALSE
INVARIANTS FreeListExact
PROPERTY Spec
