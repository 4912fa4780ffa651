SPECIFICATION Spec
CONSTANTS
    BufSize = 10
    QuadSize = 2
    PxFifoCap = 3
    MaxPxChunks = 3
    ChunkSize = 2
    CodeLen = 6
    ChunkRate = 1
    NChunks = 18
    TxFactor = 1
    ImgH = 1
    ImgV = 2
    RangeFinder = FALSE
    SideLobeDir = TRUE
    Xs = {0}
    Ys = {0, 1}
    Modes = {0}
    Dirs = {FALSE}
    MaxYStep = 2
    MinDwell = 1
    MidCodeStart = FALSE
INVARIANTS
    TypeOK
    MainLobeBounded
    NotOverwritten
    WindowsWrapRight
    MainLobeFound
    GarbageReported
PROPERTIES
    DeliversPixels
