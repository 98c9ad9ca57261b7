CONSTANTS
    IntVals <- MCIntVals
    FloatVals <- MCFloatVals
    StrOrder <- MCStrOrder
    IntWidth = 8
    MaxGroup = 3
SPECIFICATION Spec
INVARIANT AvgWithinBounds
INVARIANT MixedTypesRejected
INVARIANT DedupMatchesSpec
