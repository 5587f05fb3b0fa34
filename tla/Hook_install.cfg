SPECIFICATION InstallSpec
CONSTANTS
    Nil = Nil
    Machines <- MCMachines
    Modules <- MCModules
    Hooks <- MCHooks
    Timeout = 2
    NP_CALLS_MAX = 8
INVARIANTS
    AllRequiredOrNothing
    ReplacedAtEntry
    FoundIsSole
PROPERTY
    UnloadReturns
CHECK_DEADLOCK FALSE
