CONSTANTS
    A = A
    B = B
    u1 = u1
    h1 = h1
    h2 = h2
    Nodes = {A, B}
    Users = {u1}
    Handlers = {h1, h2}
    Asking = {A, B}
    Stoppable = {B}
    Changing = {B}
    Sticky = {B}
    MaxGroups = 1
    None = None
SPECIFICATION FairSpec
PROPERTIES EveryGetReturns EveryStopEnds
INVARIANTS TypeOK LoadsAreLed
