SPECIFICATION Spec
CONSTANTS
    a = a
    b = b
    n = n
    m1 = m1
    m2 = m2
    Me = Me
    None = None
    Cell = {a}
    LocalCell = {a}
    Node = {n}
    Peer = {a, n}
    Conn = {k1, k2}
    Api = {}
    Msg = {m1, m2}
    Dest <- SameCell
    Rows <- AnyRow
    HasHandler = TRUE
    Events = {"close", "crash", "clock", "leave", "malformed", "raise"}
    TtlMessage = 1
    MaxMessages = 2
INVARIANTS
    TypeOK
    TwiceNeedsCause
    NoMessageVanishes
    BufferedNotLost
    StrandedNeedsCause
PROPERTY
    ImplementsMailbox
SYMMETRY Symmetry
