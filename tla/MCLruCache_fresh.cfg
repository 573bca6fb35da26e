CONSTANTS
    Procs = {g1}
    Keys = {k1, k2}
    Sizes = {1, 2}
    Limits = {0, 2}
    Durations = {1}
    MaxTime = 3
    MaxVersion = 2
SPECIFICATION Spec
PROPERTY OnlyExpiredDropped
