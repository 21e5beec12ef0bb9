SPECIFICATION MCSpec
CONSTANTS
    P = 97
    Generator = 28
    LogOrder = 5
    FftThreshold = 5
INVARIANT SumIsSerial
CHECK_DEADLOCK FALSE
