SPECIFICATION Spec
CONSTANTS
    NSamples = 4
    LdOnDelay = 2
    MaxIr = 7
    Irs = {0, 1, 7}
INVARIANTS
    NestInRange
PROPERTIES
    DelayKept
