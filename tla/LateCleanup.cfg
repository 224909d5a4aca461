CONSTANTS
    None = None
    MaxSegments = 4
    n1 = n1
    n2 = n2
    Owners <- MCOwners
    Roots = {root}
    Requests = {r1}
    RootFence = RootFence
    Deployments <- OnlyShared
    MaxLeases = 3
SYMMETRY Symmetric
SPECIFICATION Spec
INVARIANT
    DurableLogReadable
CHECK_DEADLOCK FALSE
