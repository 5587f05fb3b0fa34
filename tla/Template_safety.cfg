SPECIFICATION Spec
CONSTANTS
    Games = {g1, g2}
    App = App
    None = None
    MaxVersion = 3
SYMMETRY SomeSymmetry
INVARIANTS
    SeedsAreWhole
    SeedIsOfThisRunner
CHECK_DEADLOCK FALSE
