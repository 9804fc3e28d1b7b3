SPECIFICATION Spec
CONSTANTS
    x = x
    y = y
    f = f
    g = g
    None = None
    Bindings = {x}
    Fields = {f, g}
    InitParams = {x}
    TakeParams = {}
    Mutable = {x}
    Linear = {}
    Droppable = {f, g}
    Modes = {"take", "init"}
    Avoids = {"jump", "raise", "gap", "update"}
    MaxPoints = 6
    MaxDepth = 2
INVARIANT
    NoDeadUse
SYMMETRY FieldSymmetry
CHECK_DEADLOCK FALSE
