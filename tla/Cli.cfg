SPECIFICATION Spec
CONSTANTS
    x1 = x1
    x2 = x2
    a = a
    None = None
    Proc = {p1, p2, p3}
    Key = {x1, x2}
    Addr = {a}
    At <- SameAddress
INVARIANTS
    TypeOK
    KeysKept
    
    NoticesLoss

    
CHECK_DEADLOCK FALSE
