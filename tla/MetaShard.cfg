CONSTANTS
    None = None
    r1 = r1
    r2 = r2
    workspace = workspace
    claim = claim
    path = path
    body = body
    stamp = stamp
    job = job
    v1 = v1
    Keys <- MCKeys
    Claims = {claim}
    Bodies = {body}
    Requests = {r1, r2}
    Ops <- MCOps
    Jobs = {job}
    StampKey = stamp
    Generation = 1
    Namespace = "objects"
    MaxEpoch = 2
    MaxLease = 1
    MaxReplay = 12
    MaxReads = 1
SYMMETRY Symmetric
SPECIFICATION MCSpec
INVARIANTS
    AnsweredExactlyOnce
    RepeatableReads
    SuccessorAgrees
    StampsAreExact
    DeadlinesHold
CHECK_DEADLOCK FALSE
