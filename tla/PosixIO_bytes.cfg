SPECIFICATION Spec
CONSTANTS
    BLK = 2
    Size = 6
    MaxPuts = 2
    Lens = {1, 2}
    MoveLens = {1, 3}
    Budgets <- MCBudgets
    VarsFirst = FALSE
    OFF_NONE = OFF_NONE
    NoSlave = NoSlave
    NoMove = NoMove
    Hole = Hole
INVARIANT TypeOK
PROPERTY IsByteFile
