CONSTANTS
    None = None
    MaxSegments = 4
    n1 = n1
    n2 = n2
    Owners <- MCOwners
    Roots = {root}
    Requests = {r1}
    RootFence = RootFence
    Deployments <- MCDeployments
    MaxLeases = 3
SYMMETRY Symmetric
SPECIFICATION Spec
INVARIANTS
    AckedSurvive
    AckedDurable
    NoEpochGap
PROPERTIES
    DurableLogGrows
CHECK_DEADLOCK FALSE
