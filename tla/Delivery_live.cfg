SPECIFICATION Spec
CONSTANTS
    a = a
    b = b
    n = n
    m1 = m1
    m2 = m2
    Me = Me
    None = None
    Cell = {a, b}
    LocalCell = {a}
    Node = {n}
    Peer = {a, b, n}
    Conn = {k1, k2}
    Api = {u}
    Msg = {m1, m2}
    Dest <- Mixed
    Rows <- AnyRow
    HasHandler = TRUE
    Events = {"close"}
    TtlMessage = 1
    MaxMessages = 1
INVARIANT
    NoMisdelivery
PROPERTIES
    HandlersFinish
    RegistrationFlushes
    ClosedIsForgotten
