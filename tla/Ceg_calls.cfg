SPECIFICATION FairSpec
CONSTANTS
    Apps = {a1, a2, a3}
    Calls = {c1, c2}
    NumSlots = 2
    Wrap = 4
    Reaper = TRUE
    None = None
INVARIANTS
    AnswerIsWhole
    PgidIsOurs
PROPERTY
    CallReturns
CONSTRAINT CallsForOneGame
CHECK_DEADLOCK FALSE
