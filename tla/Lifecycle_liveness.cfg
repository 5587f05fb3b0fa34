SPECIFICATION FairSpec
CONSTANTS
    Launches = {l1}
    Workers = {w1}
    Tools = {}
    Dirs = {d1, d2, d3}
    Saves = {}
    Outside = {}
    Arches = {aa64, x8664}
    None = None
PROPERTY
    LockIsGivenUp
CHECK_DEADLOCK FALSE
