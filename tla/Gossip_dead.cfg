SPECIFICATION Spec
CONSTANTS
    n1 = n1
    n2 = n2
    n3 = n3
    Node = {n1, n2, n3}
    Known <- Acquainted
    JoinVia = {}
    Dead = {n3}
    Mortal = {}
    Fanout = 2
    Env = {"clock"}
    MissedPingsOffline = 1
    TtlNodeOffline = 0
PROPERTY
    DeadForgotten
