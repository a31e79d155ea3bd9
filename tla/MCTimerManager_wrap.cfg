SPECIFICATION Spec
CONSTANTS
    Conns = {c1, c2}
    NoConn = NoConn
    Nodes = {n1, n2, n3}
    NoNode = NoNode
    Period = 7
    Timeouts = {1, 3}
    Slack = 2
    MaxWait = 8
SYMMETRY Symmetry
INVARIANTS
    EveryTimerOnTime
