SPECIFICATION Spec
CONSTANTS
    m = m
    t1 = t1
    t2 = t2
    w1 = w1
    w2 = w2
    g1 = g1
    g2 = g2
    None = None
    Main = m
    Tasks = {t1, t2}
    Groups = {g1, g2}
    Workers = {w1, w2}
    Spawners <- MainAndFirst
    UnitTasks = {t2}
    MovesHandles = TRUE
    EarlyExits = TRUE
INVARIANTS
    NoJobLost
    OneJobPerTask
PROPERTY
    ImplementsCell
SYMMETRY PoolSymmetry
CHECK_DEADLOCK FALSE
