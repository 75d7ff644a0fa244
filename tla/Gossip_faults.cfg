SPECIFICATION Spec
CONSTANTS
    n1 = n1
    n2 = n2
    n3 = n3
    Node = {n1, n2}
    Known <- Genesis
    JoinVia <- JoinBoth
    Dead = {}
    Mortal = {n2}
    Fanout = 1
    Env = {"faults", "removals", "clock", "pongs"}
    MissedPingsOffline = 2
    TtlNodeOffline = 0
INVARIANTS
    TypeOK
    StatusMatchesMisses
    OwnRowOnline
PROPERTY
    ForgottenStays
