SPECIFICATION RecordsSpec
CONSTANTS
    Corpora <- MCWorlds
    Ids = {"a", "b"}
    BadId = BadId
    Most <- MCMost
    Required <- MCRequired
    Num <- MCNum
    RecBuf = 5
    RecordsMax = 1
    Nil = Nil
INVARIANTS
    RecordsTypeOK
    ReadersAgree
    AcceptedAreSound
    EveryRecordIsTold
CHECK_DEADLOCK FALSE
