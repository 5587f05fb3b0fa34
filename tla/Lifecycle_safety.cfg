SPECIFICATION Spec
CONSTANTS
    Launches = {l1}
    Workers = {w1}
    Tools = {t1}
    Dirs = {d1, d2, d3}
    Saves = {s1}
    Outside = {}
    Arches = {aa64, x8664}
    None = None
SYMMETRY SomeSymmetry
INVARIANTS
    SavesKept
    DiscardIsSafe
    SetUpMatchesTool
CHECK_DEADLOCK FALSE
