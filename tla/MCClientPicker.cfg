CONSTANTS
    a = a
    b = b
    c = c
    y = y
    z = z
    Nodes = {a, b, c}
    NoNode = NoNode
    Keys = {y, z}
    Hashes = {0, 1, 2, 3, 4, 5, 6, 7, 8, 9, 10}
    HashOf <- HashTable
    KeyHash <- KeyTable
    DefaultReplicas = 2
    MinReplicas = 2
    MaxReplicas = 3
    Threshold = 25
    MinRequests = 1
    MaxRequests = 2
    Readded = {a, b, c}
    MaxEvents = 2
SPECIFICATION PickerSpec
INVARIANTS TypeOK RingMatchesNodes CountsWithinTotal PickerTypeOK MembersHaveClients ConnectionsAccounted Converges
PROPERTY MinimalDisruption
CHECK_DEADLOCK FALSE
