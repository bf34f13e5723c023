CONSTANTS
    f1 = f1
    f2 = f2
    f3 = f3
    Frames <- MCFrames
    Images <- MCImages
    Programs <- MCSameSizePrograms
    MaxSegments = 2
    MaxPage = 6
    UserStack = 1
    MaxSz = 6
    MaxSeq = 6
    MinSeqInit = 999999
    MaxPagesInfo = 8
    MaxSwap = 2
    PtPageMayRunOut = FALSE
SYMMETRY MCSymmetry
INIT LoaderInit
NEXT LoaderNext
INVARIANT FramesAccounted
CHECK_DEADLOCK FALSE
