CONSTANTS
    None = None
    ra = ra
    sa = sa
    Threads = {t1, t2, t3}
    Roots = {ra}
    Shards = {sa}
    ShardOf <- MCShardOf
    MaxEpoch = 2
SPECIFICATION LiveSpec
INVARIANTS
    TypeOK
    FenceHolds
PROPERTIES
    FailCloseReturns
CHECK_DEADLOCK FALSE
