SPECIFICATION Spec
CONSTANTS
    None = None
    Unread = Unread
    Dylib = dylib
    Overlay = overlay
    OurNames = {"notproton-26", "notproton-27", "notproton-mine", "notproton"}
    Builds = {"26.0", "26.1", "27.0"}
    Flavors = {"fex", "rosetta"}
    Lists <- MCLists
    Worlds <- MCWorlds
    Threads = {t1, t2}
    Apps = {1}
    COMPAT_MANAGER_TOOLS_HEADROOM = 1
INVARIANTS
    FoldersFollowList
    TheirsStay
    ChainHolds
    PageMatchesLaunch
    LaunchIsSound
CHECK_DEADLOCK FALSE
