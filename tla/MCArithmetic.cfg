SPECIFICATION MCSpec
CONSTANTS
    B = 8
    Moduli <- MCModuli
    P = 97
    Generator = 28
    LogOrder = 5
    FftThreshold = 5
    Sizes = {1, 2, 4, 8}
    MCValues = {0, 1, 96}
    MCRands = {3}
    MCPoints = {0, 5}
    MCShares = {2, 3}
    MCKeys = {1, 2, 4, 27}
INVARIANTS FieldIsExact BlocksAreTransforms InverseRestores SumIsExactWhereWritten
INVARIANTS Completeness SharesAddUp Soundness CircuitIsSound SzkDecides
CHECK_DEADLOCK FALSE
