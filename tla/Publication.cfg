CONSTANTS
    None = None
    o1 = o1
    o2 = o2
    r1 = r1
    r2 = r2
    Plans <- MCPlans
    ManifestRows = 1
    BatchSize = 2
    MaxUploads = 2
    MaxFailures = 1
    MaxRetries = 1
    MaxCrashes = 1
SPECIFICATION Spec
INVARIANTS
    ReadableUnlessReused
    ObjectsAreLedgered
    AckedStaysPublished
    AppendedOnce
    SealedForGood
PROPERTIES
    LiveIsLeftAlone
    OrphansResolve
CHECK_DEADLOCK FALSE
