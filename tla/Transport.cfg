SPECIFICATION TransportSpec
CONSTANTS
    Conn = {k1, k2, k3}
    Peer = {p1, p2}
INVARIANTS
    TransportTypeOK
    RegistrySound
    SoleConnectionRegistered
    StopClosesRegistered

    
