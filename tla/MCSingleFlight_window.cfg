CONSTANTS
    Procs = {g1, g2, g3}
    Keys = {k1}
    NoCall = NoCall
    Err = Err
    Unset = Unset
    MaxCalls = 1
    MaxVersion = 1
SPECIFICATION FairSpec
PROPERTY MonotoneReads
CHECK_DEADLOCK FALSE
