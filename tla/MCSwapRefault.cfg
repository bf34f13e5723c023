CONSTANTS
    f1 = f1
    f2 = f2
    f3 = f3
    Frames <- MCFrames
    Images <- MCGoodImages
    MaxPage = 6
    UserStack = 1
    MaxSz = 6
    MaxSeq = 6
    MinSeqInit = 999999
    MaxPagesInfo = 8
    MaxSwap = 2
    PtPageMayRunOut = FALSE
SYMMETRY MCSymmetry
INIT Init
NEXT Next
CHECK_DEADLOCK FALSE
INVARIANT SwappedCountMatchesSwapContents
