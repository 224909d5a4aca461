CONSTANTS
    None = None
    Base = Base
    r1 = r1
    r2 = r2
    s1 = s1
    s2 = s2
    a = a
    b = b
    Plans <- MCPlans
    BatchSize = 1
SPECIFICATION Spec
INVARIANTS
    SourceHeld
    CountsExact
    RestoredIsWhole
    CleanedLeavesNothing
    FinalizersConverge
PROPERTIES
    AbortsResolve
CHECK_DEADLOCK FALSE
