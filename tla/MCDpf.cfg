SPECIFICATION MCSpec
CONSTANTS
    P = 5
    Bits = 3
    SeedBits <- MCSeedBits
    ExtendXof <- MCExtendXof
    ConvertSeed <- MCConvertSeed
    ConvertValue <- MCConvertValue
    Reports <- MCReports
    Capacities = {0, 2}
INVARIANTS PointFunction CacheIsSound VidpfPointFunction ProofsVouch
CHECK_DEADLOCK FALSE
