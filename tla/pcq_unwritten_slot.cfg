SPECIFICATION Spec
CONSTANTS
    BufSize = 12
    QuadSize = 4
    PxFifoCap = 6
    MaxPxChunks = 3
    ChunkSize = 2
    CodeLen = 7
    ChunkRate = 2
    NChunks = 6
    TxFactor = 1
    ImgH = 1
    ImgV = 2
    RangeFinder = FALSE
    SideLobeDir = TRUE
    Xs = {0}
    Ys <- EnterRows
    Modes = {0}
    Dirs = {FALSE, TRUE}
    MaxYStep = 2
    MinDwell = 1
    MidCodeStart = FALSE
INVARIANTS
    GarbageReported
