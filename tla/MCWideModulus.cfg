SPECIFICATION MCSpec
CONSTANTS
    B = 32
    Moduli <- MCModuli
INVARIANT FieldIsExact
