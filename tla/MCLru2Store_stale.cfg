CONSTANTS
    k1 = k1
    k2 = k2
    g1 = g1
    g2 = g2
    NoSet = NoSet
    Keys = {k1, k2}
    BucketCount = 1
    BucketOf <- OneBucket
    Procs = {g1}
    Clearers = {g1}
    L1Cap = 1
    L2Cap = 1
    Durations = {1}
    MaxTime = 2
    MaxVersion = 3
SPECIFICATION Spec
INVARIANT ReadsLatest
