CONSTANTS
    IntVals <- MCIntVals
    FloatVals <- MCFloatVals
    StrOrder <- MCStrOrder
    IntWidth = 3
    MaxGroup = 3
SPECIFICATION Spec
INVARIANT AvgWithinBounds
