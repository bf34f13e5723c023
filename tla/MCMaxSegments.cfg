CONSTANTS
    f1 = f1
    f2 = f2
    f3 = f3
    Frames <- MCFrames
    Images <- MCImages
    Programs <- MCThreePrograms
    MaxSegments = 2
    MaxPage = 7
    UserStack = 1
    MaxSz = 5
    MaxSeq = 6
    MinSeqInit = 999999
    MaxPagesInfo = 8
    MaxSwap = 2
    PtPageMayRunOut = TRUE
SYMMETRY MCSymmetry
INIT LoaderInit
NEXT LoaderNext
INVARIANT ExecRecordsAllSegments
CHECK_DEADLOCK FALSE
