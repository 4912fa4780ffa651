SPECIFICATION Spec
CONSTANTS
    ImgH = 3
    ImgV = 2
    CodeLen = 3
    ChunkSize = 2
    CmaMaxSamples = 2
    MaxIrCount = 2
    DiscardLate = TRUE
    InvalidateDiffTxRx = TRUE
    Offsets = {2}
    Irs = {0, 2, 5}
    Nests = {1}
    Modes = {0, 1}
    Bits = {1}
    MaxIn = 4
INVARIANTS
    RowsRise
    OutputComplete
    MixedModesMarked
    IrInRange
PROPERTIES
    OutputFinal
