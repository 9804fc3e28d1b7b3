\* Every import graph over three files, and builds of faulty and sound packages.
SPECIFICATION Spec
CHECK_DEADLOCK FALSE
CONSTANTS
    A = A
    B = B
    C = C
    G = G
    H = H
    R = R
    s = s
    t = t
    NoName = NoName
    Paths <- MCPaths
    Names <- MCPaths
    Specs <- MCSpecs
    Packages <- MCPackages
INVARIANTS
    TypeOK
    OrderSound
    GraphFaithful
    LeavesAgree
    NoErrorLost
    SuccessMeansBuilt
PROPERTIES
    BuildEnds
