SPECIFICATION HelperSpec
CONSTANTS
    Nil = Nil
    Worlds <- MCWorlds
    Commands <- MCCommands
    MaxAsks = 2
    MaxRuns = 3
INVARIANTS
    PrefixIsCurrent
    OneGame
PROPERTIES
    HelperLeaves
    AckArrives
CHECK_DEADLOCK FALSE
