CONSTANTS
    a = a
    b = b
    c = c
    Seqs <- MCSeqs
    NumBlocks = 3
    Width = 2
    MaxNew = 2
    MaxAlloc = 4
SPECIFICATION Spec
CHECK_DEADLOCK FALSE
INVARIANTS TypeOK RefsExact NoDup ScratchPrivate Conservation RoomForCall
PROPERTY PoolSpec
