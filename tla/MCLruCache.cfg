CONSTANTS
    Procs = {g1, g2}
    Keys = {k1, k2}
    Sizes = {1, 2}
    Limits = {0, 2}
    Durations = {1}
    MaxTime = 3
    MaxVersion = 2
SPECIFICATION FairSpec
INVARIANTS TypeOK StructuresAgree NeverServedExpired ReportsFinal
PROPERTY ExpiredDropped
