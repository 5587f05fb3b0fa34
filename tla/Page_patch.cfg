SPECIFICATION Spec
CONSTANTS
    Tools <- MCTools
    Worlds <- MCWorlds
    Arches <- MCArches
    VarDepth = 2
    None = None
    Threads = {w1}
    Gates <- MCGates
    Fixes = {"f"}
    NativeFixes <- Native
    Anchors <- Lib
    Toolbars = {"t1", "t2"}
INVARIANTS
    PatchIsWhole
    PageIsFresh
    OfferMatchesLaunch
    BuiltKeepsBridge
PROPERTY
    OpenReturns
