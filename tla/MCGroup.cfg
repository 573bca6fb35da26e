CONSTANTS
    g1 = g1
    g2 = g2
    Procs = {g1, g2}
    Keys = {k1}
    NoCall = NoCall
    Err = Err
    Unset = Unset
    MaxCalls = 1
    MaxVersion = 1
    MaxSyncs = 2
SPECIFICATION Spec
SYMMETRY Symmetry
INVARIANTS TypeOK NothingOldReturns ClosedStaysEmpty
CHECK_DEADLOCK FALSE
