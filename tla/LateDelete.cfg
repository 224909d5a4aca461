CONSTANTS
    None = None
    o1 = o1
    o2 = o2
    r1 = r1
    r2 = r2
    Plans <- ReusePlans
    ManifestRows = 1
    BatchSize = 2
    MaxUploads = 1
    MaxFailures = 0
    MaxRetries = 0
    MaxCrashes = 1
SPECIFICATION Spec
INVARIANT PublishedIsReadable
CHECK_DEADLOCK FALSE
