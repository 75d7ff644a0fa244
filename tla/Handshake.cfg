SPECIFICATION Spec
CONSTANTS
    Id = {x, y}
    None = None
INVARIANTS
    TypeOK
    Authentic
PROPERTY
    HandshakeEnds
CHECK_DEADLOCK FALSE
