SPECIFICATION Spec
CONSTANTS
    X_ALIGN = 2
    HBase = 2
    HVar = 2
    HAtt = 2
    Sizes = {1, 2}
    EndefArgs <- MCEndefArgs
    X_OFF_MAX = 16
    FileSize = 40
    MaxRecs = 3
    Shapes <- MCShapes
    NoLayout = NoLayout
INVARIANTS
    TypeOK
    ContentIntact
    HeaderReadable
    ReopenAgrees
