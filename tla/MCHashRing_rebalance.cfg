CONSTANTS
    a = a
    b = b
    c = c
    x = x
    y = y
    z = z
    w = w
    Nodes = {a, b, c}
    NoNode = NoNode
    Keys = {x, y, z, w}
    Hashes = {0, 1, 2, 3, 4, 5, 6, 7, 8, 9, 10}
    HashOf <- HashTable
    KeyHash <- KeyTable
    DefaultReplicas = 2
    MinReplicas = 2
    MaxReplicas = 3
    Threshold = 25
    MinRequests = 3
    MaxRequests = 5
    Readded = {}
SPECIFICATION FairSpec
PROPERTY RebalanceCompletes
CHECK_DEADLOCK FALSE
