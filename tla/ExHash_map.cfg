SPECIFICATION Spec
CONSTANTS
    KeyBits = 4
    Keys = {0, 1, 2, 3, 8, 10, 12, 14}
    Data = {1, 2}
    NoData = NoData
    LeafLen = 2
    Uses <- MCUses
    NoLeaf = NoLeaf
INVARIANT
    TypeOK
PROPERTY
    IsMap
    WalkComplete
    LocateEnds
