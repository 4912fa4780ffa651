SPECIFICATION Spec
CONSTANTS
    ImgH = 5
    ImgV = 2
    Scale = 2
    XBitShifts = 1
    XRelease <- Sections
    MaxBufferSize = 2
    Dts = {0, 1, 3}
INVARIANTS
    TypeOK
    OverflowMeansTooFast
    ReleasedOnRequest
