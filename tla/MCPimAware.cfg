CONSTANTS
    a = a
    b = b
    Seqs <- MCSeqs
    NumBlocks = 9
    G = 3
    Width = 1
    MaxNew = 2
    MaxAlloc = 4
    Options <- MCOptions
    MaxCopies = 2
SPECIFICATION PimSpec
CHECK_DEADLOCK FALSE
SYMMETRY Symmetry
INVARIANTS FramesExact EmptyListed PlanServes
PROPERTIES DonorsCleared CompactionGathers Spec
