SPECIFICATION Spec
CONSTANTS
    a1 = a1
    a2 = a2
    applications = applications
    drive = drive
    NoOne = NoOne
    Accounts = {a1, a2}
    Bundles = {applications, drive}
    DefaultBundle = applications
    Removable = {drive}
    CanWrite <- MCCanWrite
    MaxBuild = 2
    MaxEvents = 4
    AppBuilds <- MCAppBuilds
    Legacy = {a1}
    Foreign = {drive}
INVARIANTS
    ModifiedIsTracked
    InsertHasDylib
CHECK_DEADLOCK FALSE
