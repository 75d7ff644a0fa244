SPECIFICATION TransportSpec
CONSTANTS
    Conn = {k1, k2}
    Peer = {p1}
INVARIANT
    LiveIsRegistered
