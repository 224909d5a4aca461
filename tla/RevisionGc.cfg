CONSTANTS
    None = None
    p = p
    Paths = {p}
    Seeded <- MCSeeded
    MaxRevision = 2
    Builds = {b}
    Snapshots = {s}
    OwnBlocks = 1
    BatchSize = 2
    MaxCommands = 4
    MaxCrashes = 1
SPECIFICATION LiveSpec
INVARIANTS
    ReadersFindObjects
    CountsExact
    DeletedLeavesNothing
PROPERTIES
    Collected
CHECK_DEADLOCK FALSE
