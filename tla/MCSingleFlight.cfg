CONSTANTS
    Procs = {g1, g2, g3}
    Keys = {k1}
    NoCall = NoCall
    Err = Err
    Unset = Unset
    MaxCalls = 1
    MaxVersion = 1
SPECIFICATION FairSpec
INVARIANTS TypeOK WaitersServed NothingLeftRegistered SharingIsLocal
PROPERTY EveryDoReturns
CHECK_DEADLOCK FALSE
