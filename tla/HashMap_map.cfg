SPECIFICATION Spec
CONSTANTS
    k1 = k1
    k2 = k2
    k3 = k3
    Keys <- MCKeys
    Hash <- MCHash
    Data = {1, 2}
    NoKey = NoKey
    NoData = NoData
    MINTABLESIZE = 3
INVARIANT
    NoDuplicates
PROPERTY
    IsMap
CHECK_DEADLOCK FALSE
