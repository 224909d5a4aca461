CONSTANTS
    None = None
    Base = Base
    r1 = r1
    r2 = r2
    s1 = s1
    s2 = s2
    a = a
    b = b
    Plans <- MCPlans
    BatchSize = 1
SPECIFICATION Spec
INVARIANT OrphansAreTakenOver
CHECK_DEADLOCK FALSE
