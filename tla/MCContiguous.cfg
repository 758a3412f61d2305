CONSTANTS
    s1 = s1
    s2 = s2
    s3 = s3
    Seqs <- MCSeqs
    Null = Null
    NumBlocks = 6
SPECIFICATION CSpec
INVARIANTS Tiling SpanLayout SpanGateFive
