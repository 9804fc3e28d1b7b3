\* Is an import that introduces no leaf always one that was reported?
SPECIFICATION Spec
CHECK_DEADLOCK FALSE
CONSTANTS
    A = A
    B = B
    C = C
    G = G
    H = H
    R = R
    s = s
    t = t
    NoName = NoName
    Paths <- MCPaths
    Names <- MCPaths
    Specs <- MCSpecs
    Packages <- MCPackages
INVARIANT
    SkippedWereReported
