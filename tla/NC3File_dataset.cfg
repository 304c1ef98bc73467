SPECIFICATION Spec
CONSTANTS
    Name <- MCName
    NameLen <- MCNameLen
    Value <- MCValue
    Xlen <- MCXlen
    FillAtts = {"good", "bad"}
    ShareModes = {TRUE, FALSE}
    IOFails = FALSE
    MaxRecs = 2
    Bounds <- MCBounds
    NoFile = NoFile
    Empty = Empty
    NoHeader = NoHeader
INVARIANTS
    TypeOK
    NamesUnique
    DirtyFlags
    Durable
    SyncOnDisk
    OldWhileRedef
PROPERTY
    CloseOnDisk
