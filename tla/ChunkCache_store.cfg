SPECIFICATION Spec
CONSTANTS
    Chunks = {c1, c2, c3}
    Values = {v1, v2}
    Fill = Fill
    Garbage = Garbage
    NoEntry = NoEntry
    Absent = Absent
    ChunkSize = 2
    Shapes <- MCShapes
INVARIANTS
    TypeOK
    UsedCovers
    Bounded
PROPERTIES
    SyncSaves
    ReadOnlyStays
    IsStore
