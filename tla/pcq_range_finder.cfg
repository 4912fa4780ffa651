SPECIFICATION FairSpec
CONSTANTS
    BufSize = 9
    QuadSize = 4
    PxFifoCap = 3
    MaxPxChunks = 6
    ChunkSize = 2
    CodeLen = 16
    ChunkRate = 2
    NChunks = 13
    TxFactor = 1
    ImgH = 2
    ImgV = 1
    RangeFinder = TRUE
    SideLobeDir = TRUE
    Xs <- RangeCols
    Ys = {0}
    Modes = {0}
    Dirs = {FALSE}
    MaxYStep = 2
    MinDwell = 4
    MidCodeStart = TRUE
PROPERTIES
    AnalyzerStops
    OffsetsAgree
    Termination
    DeliversPixels
