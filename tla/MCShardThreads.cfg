SPECIFICATION Spec
CONSTANTS
    Threads = {t1, t2}
    Keys = {k1, k2}
    Handles = {h1, h2, h3}
    Charges <- MCCharges
    Standalones <- MCCharges
    Capacities <- MCCapacities
    Priorities <- MCPriorities
    HighRatios <- MCRatios
    LowRatios <- MCRatios
    Den = 2
    Stricts = {TRUE, FALSE}
    MaxRefs = 2
    Nil = Nil
SYMMETRY MCSymmetry
INVARIANTS
    TypeOK
    HandleStates
    HeldEntriesLive
    FullMeansAllPinned
    Accounting
PROPERTIES
    StrictLimit
    ImplementsCache
