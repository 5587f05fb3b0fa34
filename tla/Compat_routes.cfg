SPECIFICATION Spec
CONSTANTS
    Callers = {t1, t2}
    Readers = {d1}
    Builds = {b1}
    Runners = {rosetta}
    Keys = {k1}
    Values = {good, bad}
    Good = {good}
    Tools = {tool1, tool2, tool3}
    t1 = t1
    t2 = t2
    d1 = d1
    rosetta = rosetta
    fex = fex
    b1 = b1
    b2 = b2
    k1 = k1
    k2 = k2
    good = good
    bad = bad
    tool1 = tool1
    tool2 = tool2
    tool3 = tool3
    acc = acc
    other = other
    Family = Family
    NoBuild = NoBuild
    None = None
    Absent = Absent
    Torn = Torn
    Folder = Folder
    Huge = Huge
    KeyRunners <- MCKeyRunners
    TextMax = 2
    Texts <- MCTexts
    InitialFiles <- MCInitialFiles
    ToolOf <- MCToolOf
    ReadOrder <- MCReadOrder
    Images <- MCImages
    MinSites = 2
    MaxRoutes = 8
    Asked <- MCAsked
SYMMETRY CallerSymmetry
INVARIANTS
    AnswerIsTrue
    ShownIsWhatApplies
    JobIsItsRoutes
PROPERTY
    StoreSpec
