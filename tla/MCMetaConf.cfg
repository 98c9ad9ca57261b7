CONSTANTS
    k1 = k1
    k2 = k2
    f1 = f1
    f2 = f2
    Keys = {k1, k2}
    Fields = {f1, f2}
    MaxRequests = 4
SPECIFICATION Spec
INVARIANT FieldAnswerTruthful
CHECK_DEADLOCK FALSE
