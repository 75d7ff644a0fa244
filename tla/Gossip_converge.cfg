SPECIFICATION Spec
CONSTANTS
    n1 = n1
    n2 = n2
    n3 = n3
    Node = {n1, n2, n3}
    Known <- Joined2
    JoinVia <- JoinThird
    Dead = {}
    Mortal = {}
    Fanout = 3
    Env = {}
    MissedPingsOffline = 1
    TtlNodeOffline = 0
PROPERTY
    Converges
