SPECIFICATION SessionSpec
CONSTANTS
    Sock = {k1, k2}
    Conn = {k1, k2}
    None = None
    DisconnectsFirst = TRUE
    Cell = c
    Peer = {c}
    Server = s
    Stranger = x
    NoBytes = NoBytes
    Msg = {m1}
    MaxWire = 1
INVARIANTS
    TypeOK
    OneReader
    ConnectedWhileReading
    Unaltered
PROPERTIES
    LossNoticed
    PassedIsRead
    SentIsTaken
