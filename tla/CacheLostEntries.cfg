SPECIFICATION Spec
CONSTANTS
    b1 = b1
    b2 = b2
    b3 = b3
    k1 = k1
    s1 = s1
    s2 = s2
    s3 = s3
    x = x
    y = y
    None = None
    Artifacts = {x, y}
    Sharded = {x}
    Builders = {b1, b2, b3}
    Collectors = {}
    Stores = {s1, s2, s3}
    StoreOf <- OwnStores
    Sequential = FALSE
    Crashes = FALSE
    Faults = FALSE
    SlowRename = FALSE
INVARIANT
    SuccessIsDurable
CHECK_DEADLOCK FALSE
