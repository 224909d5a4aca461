CONSTANTS
    None = None
    MaxSegments = 1
    a = a
    b = b
    Owners <- MCOwners
    Digests = {d}
    Roots = {r1}
    MaxLsn = 1
    MaxGeneration = 2
    MaxGrants = 2
    MaxLost = 1
    MaxRevision = 5
SYMMETRY Symmetric
SPECIFICATION Spec
INVARIANTS
    AnswersAreTrue
    RefusedNeverInstalled
PROPERTIES
    Refines
CHECK_DEADLOCK FALSE
