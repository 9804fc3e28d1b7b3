SPECIFICATION Spec
CONSTANTS
    w1 = w1
    w2 = w2
    n1 = n1
    c1 = c1
    Workers = {w1, w2}
    NoWorker = NoWorker
    Namespaces = {n1}
    Caps = {c1}
    CapLists <- MCCapLists
    Priorities = {1, 2}
    Requests <- MCRequests
    MaxJobs = 3
    MaxTime = 1
    Leases = {1}
    NsConfigs <- MCConfigs
    DefaultConfig <- MCConfig
    BackoffBase = 1
    BackoffCap = 1
    JitterPercent = 0
    RequireRegistration = TRUE
    MaxFaults = 1
SYMMETRY MCSymmetry
INVARIANTS
    TypeOK
    DependenciesCounted
    ExclusiveHold
    AckedIsDurable
    JobsAccounted
PROPERTY
    EndsAreFinal
