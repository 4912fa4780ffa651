SPECIFICATION Spec
CONSTANTS
    NUnits = 2
    SampleTemps = {2, 3}
    TempTh = 1
    Period = 2
    MaxTime = 5
    LddTKill = 6
    Gaps = {1, 2}
    Steps = {0, 1, 2}
    StartLdd = 1
INVARIANTS
    SessionOfUnit
    CheckedIsLast
    HeatingBounded
    ShortFramesBounded
