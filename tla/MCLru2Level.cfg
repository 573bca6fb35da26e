CONSTANTS
    Keys = {k1, k2, k3, k4}
    Values = {v1, v2}
    Expiries = {1}
    Cap = 3
    NoKey = NoKey
SPECIFICATION Spec
INVARIANTS TypeOK LevelSound
PROPERTY ImplementsRecencyList
