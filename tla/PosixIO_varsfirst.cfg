SPECIFICATION Spec
CONSTANTS
    BLK = 4
    Size = 16
    MaxPuts = 2
    Lens = {1, 2}
    MoveLens = {1, 4}
    Budgets <- MCVarsFirst
    VarsFirst = TRUE
    OFF_NONE = OFF_NONE
    NoSlave = NoSlave
    NoMove = NoMove
    Hole = Hole
PROPERTY IsByteFile
