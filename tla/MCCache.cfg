CONSTANTS
    Procs = {g1, g2}
    Keys = {k1}
    None = None
    StatCap = 2
SPECIFICATION FairSpec
INVARIANTS TypeOK StoreUsable OneStore CloseReleases
PROPERTIES ImplementsContract EveryCallReturns
