SPECIFICATION Spec
CONSTANTS
    x = x
    y = y
    f = f
    g = g
    None = None
    Bindings = {x, y}
    Fields = {f, g}
    InitParams = {x}
    TakeParams = {y}
    Mutable = {x, y}
    Linear = {y}
    Droppable = {f, g}
    Modes = {"move", "assign", "update", "take"}
    Avoids = {"jump", "raise", "skip", "gap", "update"}
    MaxPoints = 6
    MaxDepth = 2
INVARIANTS
    TypeOK
    NoDeadUse
SYMMETRY FieldSymmetry
CHECK_DEADLOCK FALSE
