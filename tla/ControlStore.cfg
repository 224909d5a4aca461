CONSTANTS
    None = None
    MaxSegments = 2
    a = a
    b = b
    da = da
    db = db
    Owners <- MCOwners
    Digests <- MCDigests
    Roots = {r1}
    MaxLsn = 2
    MaxLeases = 3
    MaxGeneration = 3
SYMMETRY Symmetric
SPECIFICATION Spec
INVARIANTS
    TypeOK
    SessionIsCurrent
    OneServingLeasePerEpoch
PROPERTIES
    PendingIsSettled
    DurableFrontierKept
CHECK_DEADLOCK FALSE
