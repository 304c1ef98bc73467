SPECIFICATION Spec
CONSTANTS
    Name <- MCName
    NameLen <- MCNameLen
    Value <- MCValue
    Xlen <- MCXlen
    FillAtts = {"bad"}
    ShareModes = {FALSE}
    IOFails = TRUE
    MaxRecs = 2
    Bounds <- MCBadFill
    NoFile = NoFile
    Empty = Empty
    NoHeader = NoHeader
INVARIANTS
    Durable
    SyncOnDisk
