SPECIFICATION Spec
CONSTANTS
    Idle = Idle
    Shapes <- MCShapes
INVARIANTS
    TypeOK
    Exact
    ReadsNeeded
    Accepts
PROPERTIES
    Ends
