SPECIFICATION Spec
CONSTANTS
    a = a
    b = b
    n = n
    m1 = m1
    m2 = m2
    Me = Me
    None = None
    Cell = {a}
    LocalCell = {a}
    Node = {n}
    Peer = {a, n}
    Conn = {k1, k2}
    Api = {u}
    Msg = {m1, m2}
    Dest <- Mixed
    Rows <- HomeRow
    HasHandler = FALSE
    Events = {}
    TtlMessage = 1
    MaxMessages = 1
INVARIANT
    NoMessageVanishes
