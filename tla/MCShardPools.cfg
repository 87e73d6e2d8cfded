SPECIFICATION FairSpec
CONSTANTS
    k1 = k1
    k2 = k2
    k3 = k3
    Threads = {t1}
    Keys = {k1, k2, k3}
    Handles = {h1, h2, h3}
    Charges = {1}
    Standalones = {}
    Capacities = {3}
    Priorities <- MCPriorities
    HighRatios = {0, 1}
    LowRatios = {1}
    Den = 2
    Stricts = {FALSE}
    MaxRefs = 1
    Nil = Nil
INVARIANTS
    PoolOrder
    Accounting
PROPERTIES
    CallsReturn
