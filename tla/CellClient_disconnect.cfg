SPECIFICATION Spec
CONSTANTS
    Sock = {k1, k2, k3}
    None = None
    DisconnectsFirst = TRUE
INVARIANT
    DisconnectedIsClosed
